---- MODULE Spec2Model ----
(***************************************************************************)
(* Correlation engine, in-memory incident store and operator resolution of *)
(* the alert triage backend (backend/app/triage, backend/app/api/routes).  *)
(* Time is counted in minutes; the clock is the value now_utc() returns.   *)
(***************************************************************************)
EXTENDS Integers, Sequences, FiniteSets, TLC

VARIABLES now, incidents, service_env_index, dedupe_cache, nextId, calls,
          rate_limits, report_cache, subscribers

storeVars == <<incidents, service_env_index, dedupe_cache>>
\* the collaborators downstream of the core: the rate limiter's table, the
\* report cache's table and the event bus
downstreamVars == <<rate_limits, report_cache, subscribers>>
vars == <<now, incidents, service_env_index, dedupe_cache, nextId, calls,
          rate_limits, report_cache, subscribers>>

(* ------------------------------ bounds --------------------------------- *)
\* total number of alerts stored over all incidents
MaxAlerts == 3

\* alerts of a stream that exercises _compute_state
MaxStateReadings == 1
\* alerts of a stream that exercises _compute_trend
MaxTrendReadings == 4
\* alerts of a stream that overflows the signal history
MaxHistoryReadings == 13

\* events in one batch handed to ingest
MaxBatch == 3

\* tags of one payload
MaxTags == 2

\* alerts stored by the ingest route while reports are asked for
MaxChanges == 2
\* notifications waiting in a subscriber's queue
MaxQueued == 1

(* --------------------------- configuration ----------------------------- *)
\* CorrelationConfig defaults, in minutes / entries / percent
incident_window_minutes == 60
dedupe_window_minutes == 2
max_signal_history == 12
saturation_warn_ratio == 90
generic_warn_ratio == 95

\* Optional numeric field that is absent (Python None)
None == -1
\* Optional text field that is absent (Python None)
NoNote == "None"

SignalTypes == {"saturation", "latency", "errors", "other"}
Severities == {"info", "warning", "critical"}
ResolutionStatus == {"none", "resolved", "auto_closed", "false_alert", "accepted"}

(* ------------------------------ inputs --------------------------------- *)
Services == {"api", "db"}
Envs == {"prod"}
\* clock readings: 2 is the last minute inside the dedupe window of 0; 62 is
\* the last minute inside the look-back window of 2 and is outside that of 0
Times == {0, 2, 62}

\* utils.stable_fingerprint: the parts joined with "|"; the SHA-1 digest of the
\* joined text is taken as collision free and stands for the text itself; the
\* parts used here carry no surrounding blanks for strip() to remove
stable_fingerprint(parts) ==
    LET RECURSIVE Join(_)
        Join(ps) == IF Len(ps) = 0 THEN ""
                    ELSE IF Len(ps) = 1 THEN ps[1]
                    ELSE ps[1] \o "|" \o Join(Tail(ps))
    IN Join(parts)

\* an AlertEvent whose fingerprint also covers the observed value
Event_fingerprint_with_reading(svc, env, ty, name, sev, obs, thr) ==
    [service |-> svc, env |-> env, severity |-> sev, signal_type |-> ty,
     observed |-> obs, threshold |-> thr,
     fingerprint |-> stable_fingerprint(<<"prometheus", svc, env, ty, name,
                                          IF obs = 100 THEN "100" ELSE "">>)]

\* An AlertEvent as the normalizers build it: the fingerprint covers provider,
\* service, env, signal type, alert name and instance (empty here), never the
\* reading or the severity.
Event(svc, env, ty, name, sev, obs, thr) ==
    [service |-> svc, env |-> env, severity |-> sev, signal_type |-> ty,
     observed |-> obs, threshold |-> thr,
     fingerprint |-> stable_fingerprint(<<"prometheus", svc, env, ty, name, "">>)]

AlertEvents ==
    { Event("api", "prod", "errors", "E", "warning", 96, 100),
      Event("api", "prod", "errors", "E", "info", 50, 100),
      Event("api", "prod", "errors", "E2", "critical", None, None),
      Event("api", "prod", "saturation", "S", "critical", 100, 100),
      Event("db", "prod", "latency", "L", "warning", None, None) }

Notes == {"ack"}

(* ----------------------- triage/correlation/engine.py ------------------ *)
\* _compute_state with the warning ratio tested before the threshold
_compute_state_warning_first(event) ==
    IF event.observed = None \/ event.threshold = None
    THEN IF event.severity = "critical" THEN "critical"
         ELSE IF event.severity = "warning" THEN "warning"
         ELSE "ok"
    ELSE LET warn_ratio == IF event.signal_type = "saturation"
                           THEN saturation_warn_ratio ELSE generic_warn_ratio
         IN IF event.observed * 100 >= event.threshold * warn_ratio THEN "warning"
            ELSE IF event.observed >= event.threshold THEN "critical"
            ELSE "ok"

\* _compute_state with the generic warning ratio for every signal type
_compute_state_one_ratio(event) ==
    IF event.observed = None \/ event.threshold = None
    THEN IF event.severity = "critical" THEN "critical"
         ELSE IF event.severity = "warning" THEN "warning"
         ELSE "ok"
    ELSE IF event.observed >= event.threshold THEN "critical"
         ELSE IF event.observed * 100 >= event.threshold * generic_warn_ratio
         THEN "warning"
         ELSE "ok"

_compute_state(event) ==
    IF event.observed = None \/ event.threshold = None
    THEN IF event.severity = "critical" THEN "critical"
         ELSE IF event.severity = "warning" THEN "warning"
         ELSE "ok"
    ELSE LET warn_ratio == IF event.signal_type = "saturation"
                           THEN saturation_warn_ratio ELSE generic_warn_ratio
         IN IF event.observed >= event.threshold THEN "critical"
            ELSE IF event.observed * 100 >= event.threshold * warn_ratio THEN "warning"
            ELSE "ok"

\* eps = 1e-6, written as the fraction EpsNum / EpsDen
EpsNum == 1
EpsDen == 1000000

\* _compute_trend that compares the newest value with the third newest only
_compute_trend_endpoints(history) ==
    IF Len(history) < 3 THEN "unknown"
    ELSE LET a == history[Len(history) - 2]
             c == history[Len(history)]
         IN IF c > a /\ (c - a) * EpsDen > EpsNum THEN "up"
            ELSE IF c < a /\ (a - c) * EpsDen > EpsNum THEN "down"
            ELSE "flat"

_compute_trend(history) ==
    IF Len(history) < 3 THEN "unknown"
    ELSE LET a == history[Len(history) - 2]
             b == history[Len(history) - 1]
             c == history[Len(history)]
         IN IF c > b /\ b > a /\ (c - a) * EpsDen > EpsNum THEN "up"
            ELSE IF c < b /\ b < a /\ (a - c) * EpsDen > EpsNum THEN "down"
            ELSE "flat"

\* history[-n:]
LastN(s, n) == IF Len(s) <= n THEN s ELSE SubSeq(s, Len(s) - n + 1, Len(s))

\* _update_signal_snapshot that never truncates the history
_update_signal_snapshot_unbounded(snapshot, event, t) ==
    LET state == _compute_state(event)
        h0 == IF snapshot = <<>> THEN <<>> ELSE snapshot[1].history
        h1 == IF event.observed # None THEN Append(h0, event.observed) ELSE h0
    IN [signal_type |-> event.signal_type, state |-> state,
        trend |-> _compute_trend(h1), observed |-> event.observed,
        threshold |-> event.threshold, last_updated_at |-> t, history |-> h1]

\* _update_signal_snapshot that truncates to history[:max_signal_history]
_update_signal_snapshot_keep_oldest(snapshot, event, t) ==
    LET state == _compute_state(event)
        h0 == IF snapshot = <<>> THEN <<>> ELSE snapshot[1].history
        h1 == IF event.observed # None
              THEN LET h == Append(h0, event.observed)
                   IN IF Len(h) > max_signal_history
                      THEN SubSeq(h, 1, max_signal_history) ELSE h
              ELSE h0
    IN [signal_type |-> event.signal_type, state |-> state,
        trend |-> _compute_trend(h1), observed |-> event.observed,
        threshold |-> event.threshold, last_updated_at |-> t, history |-> h1]

\* _update_signal_snapshot that keeps a critical state once it was reached
_update_signal_snapshot_sticky(snapshot, event, t) ==
    LET state == IF snapshot # <<>> /\ snapshot[1].state = "critical"
                 THEN "critical" ELSE _compute_state(event)
        h0 == IF snapshot = <<>> THEN <<>> ELSE snapshot[1].history
        h1 == IF event.observed # None
              THEN LET h == Append(h0, event.observed)
                   IN IF Len(h) > max_signal_history
                      THEN LastN(h, max_signal_history) ELSE h
              ELSE h0
    IN [signal_type |-> event.signal_type, state |-> state,
        trend |-> _compute_trend(h1), observed |-> event.observed,
        threshold |-> event.threshold, last_updated_at |-> t, history |-> h1]

\* snapshot is <<>> when the incident has no snapshot of the type yet
_update_signal_snapshot(snapshot, event, t) ==
    LET state == _compute_state(event)
        h0 == IF snapshot = <<>> THEN <<>> ELSE snapshot[1].history
        h1 == IF event.observed # None
              THEN LET h == Append(h0, event.observed)
                   IN IF Len(h) > max_signal_history
                      THEN LastN(h, max_signal_history) ELSE h
              ELSE h0
    IN [signal_type |-> event.signal_type, state |-> state,
        trend |-> _compute_trend(h1), observed |-> event.observed,
        threshold |-> event.threshold, last_updated_at |-> t, history |-> h1]

(* ----------------------- triage/correlation/impact.py ------------------ *)
Assessment(level, conf, class) ==
    [impact |-> level, confidence |-> conf, classification |-> class]

\* ImpactAssessment() as a new Incident holds it
DefaultImpact == Assessment("none", 50, "unknown")

\* assess_incident that also reads a rising saturation as possible impact
assess_incident_saturation_trend(signals) ==
    LET has(ty) == ty \in DOMAIN signals
        errors_state == IF has("errors") THEN signals["errors"].state ELSE "ok"
        latency_state == IF has("latency") THEN signals["latency"].state ELSE "ok"
        saturation_state == IF has("saturation") THEN signals["saturation"].state ELSE "ok"
        errors_up == IF has("errors") THEN signals["errors"].trend = "up" ELSE FALSE
        latency_up == IF has("latency") THEN signals["latency"].trend = "up" ELSE FALSE
        saturation_up == IF has("saturation") THEN signals["saturation"].trend = "up" ELSE FALSE
    IN IF errors_state = "critical" /\ latency_state = "critical"
       THEN Assessment("major", 90, "outage")
       ELSE IF errors_state = "critical"
       THEN Assessment("major", 80, "error_spike")
       ELSE IF latency_state = "critical"
       THEN Assessment("major", 80, "latency_degradation")
       ELSE IF saturation_state = "critical"
       THEN IF \/ errors_state \in {"warning", "critical"}
               \/ latency_state \in {"warning", "critical"}
               \/ errors_up
               \/ latency_up
               \/ saturation_up
            THEN Assessment("minor", 70, "degradation_possible")
            ELSE Assessment("none", 65, "capacity_warning")
       ELSE IF errors_state = "warning" \/ latency_state = "warning"
       THEN Assessment("minor", 60, "investigate")
       ELSE Assessment("none", 55, "healthy")

\* assess_incident with the errors rule tried before the outage rule
assess_incident_errors_first(signals) ==
    LET has(ty) == ty \in DOMAIN signals
        errors_state == IF has("errors") THEN signals["errors"].state ELSE "ok"
        latency_state == IF has("latency") THEN signals["latency"].state ELSE "ok"
        saturation_state == IF has("saturation") THEN signals["saturation"].state ELSE "ok"
        errors_up == IF has("errors") THEN signals["errors"].trend = "up" ELSE FALSE
        latency_up == IF has("latency") THEN signals["latency"].trend = "up" ELSE FALSE
    IN IF errors_state = "critical"
       THEN Assessment("major", 80, "error_spike")
       ELSE IF errors_state = "critical" /\ latency_state = "critical"
       THEN Assessment("major", 90, "outage")
       ELSE IF latency_state = "critical"
       THEN Assessment("major", 80, "latency_degradation")
       ELSE IF saturation_state = "critical"
       THEN IF \/ errors_state \in {"warning", "critical"}
               \/ latency_state \in {"warning", "critical"}
               \/ errors_up
               \/ latency_up
            THEN Assessment("minor", 70, "degradation_possible")
            ELSE Assessment("none", 65, "capacity_warning")
       ELSE IF errors_state = "warning" \/ latency_state = "warning"
       THEN Assessment("minor", 60, "investigate")
       ELSE Assessment("none", 55, "healthy")

\* assess_incident that reads no trend
assess_incident_no_trend(signals) ==
    LET has(ty) == ty \in DOMAIN signals
        errors_state == IF has("errors") THEN signals["errors"].state ELSE "ok"
        latency_state == IF has("latency") THEN signals["latency"].state ELSE "ok"
        saturation_state == IF has("saturation") THEN signals["saturation"].state ELSE "ok"
    IN IF errors_state = "critical" /\ latency_state = "critical"
       THEN Assessment("major", 90, "outage")
       ELSE IF errors_state = "critical"
       THEN Assessment("major", 80, "error_spike")
       ELSE IF latency_state = "critical"
       THEN Assessment("major", 80, "latency_degradation")
       ELSE IF saturation_state = "critical"
       THEN IF \/ errors_state \in {"warning", "critical"}
               \/ latency_state \in {"warning", "critical"}
            THEN Assessment("minor", 70, "degradation_possible")
            ELSE Assessment("none", 65, "capacity_warning")
       ELSE IF errors_state = "warning" \/ latency_state = "warning"
       THEN Assessment("minor", 60, "investigate")
       ELSE Assessment("none", 55, "healthy")

\* assess_incident that also reads the snapshot of the signal type 'other'
assess_incident_other_signal(signals) ==
    LET has(ty) == ty \in DOMAIN signals
        errors_state == IF has("errors") THEN signals["errors"].state ELSE "ok"
        latency_state == IF has("latency") THEN signals["latency"].state ELSE "ok"
        saturation_state == IF has("saturation") THEN signals["saturation"].state ELSE "ok"
        other_state == IF has("other") THEN signals["other"].state ELSE "ok"
        errors_up == IF has("errors") THEN signals["errors"].trend = "up" ELSE FALSE
        latency_up == IF has("latency") THEN signals["latency"].trend = "up" ELSE FALSE
    IN IF errors_state = "critical" /\ latency_state = "critical"
       THEN Assessment("major", 90, "outage")
       ELSE IF errors_state = "critical"
       THEN Assessment("major", 80, "error_spike")
       ELSE IF latency_state = "critical"
       THEN Assessment("major", 80, "latency_degradation")
       ELSE IF saturation_state = "critical"
       THEN IF \/ errors_state \in {"warning", "critical"}
               \/ latency_state \in {"warning", "critical"}
               \/ errors_up
               \/ latency_up
            THEN Assessment("minor", 70, "degradation_possible")
            ELSE Assessment("none", 65, "capacity_warning")
       ELSE IF \/ errors_state = "warning" \/ latency_state = "warning"
               \/ other_state = "critical"
       THEN Assessment("minor", 60, "investigate")
       ELSE Assessment("none", 55, "healthy")

assess_incident(signals) ==
    LET has(ty) == ty \in DOMAIN signals
        errors_state == IF has("errors") THEN signals["errors"].state ELSE "ok"
        latency_state == IF has("latency") THEN signals["latency"].state ELSE "ok"
        saturation_state == IF has("saturation") THEN signals["saturation"].state ELSE "ok"
        errors_up == IF has("errors") THEN signals["errors"].trend = "up" ELSE FALSE
        latency_up == IF has("latency") THEN signals["latency"].trend = "up" ELSE FALSE
    IN IF errors_state = "critical" /\ latency_state = "critical"
       THEN Assessment("major", 90, "outage")
       ELSE IF errors_state = "critical"
       THEN Assessment("major", 80, "error_spike")
       ELSE IF latency_state = "critical"
       THEN Assessment("major", 80, "latency_degradation")
       ELSE IF saturation_state = "critical"
       THEN IF \/ errors_state \in {"warning", "critical"}
               \/ latency_state \in {"warning", "critical"}
               \/ errors_up
               \/ latency_up
            THEN Assessment("minor", 70, "degradation_possible")
            ELSE Assessment("none", 65, "capacity_warning")
       ELSE IF errors_state = "warning" \/ latency_state = "warning"
       THEN Assessment("minor", 60, "investigate")
       ELSE Assessment("none", 55, "healthy")

\* derive_status that investigates a major impact only
derive_status_major_only(impact, alerts, previous_impact) ==
    IF /\ impact.impact = "none"
       /\ previous_impact \in {"major", "minor"}
       /\ impact.classification = "healthy"
    THEN "resolved"
    ELSE IF impact.impact = "major" THEN "investigating"
    ELSE IF impact.classification = "capacity_warning" THEN "watch"
    ELSE IF alerts # <<>> THEN "watch" ELSE "resolved"

\* derive_status that resolves on every fall to impact none, healthy or not
derive_status_any_recovery(impact, alerts, previous_impact) ==
    IF /\ impact.impact = "none"
       /\ previous_impact \in {"major", "minor"}
    THEN "resolved"
    ELSE IF impact.impact \in {"major", "minor"} THEN "investigating"
    ELSE IF impact.classification = "capacity_warning" THEN "watch"
    ELSE IF alerts # <<>> THEN "watch" ELSE "resolved"

\* derive_status that resolves every incident assessed healthy
derive_status_healthy_resolves(impact, alerts, previous_impact) ==
    IF /\ impact.impact = "none"
       /\ impact.classification = "healthy"
    THEN "resolved"
    ELSE IF impact.impact \in {"major", "minor"} THEN "investigating"
    ELSE IF impact.classification = "capacity_warning" THEN "watch"
    ELSE IF alerts # <<>> THEN "watch" ELSE "resolved"

derive_status(impact, alerts, previous_impact) ==
    IF /\ impact.impact = "none"
       /\ previous_impact \in {"major", "minor"}
       /\ impact.classification = "healthy"
    THEN "resolved"
    ELSE IF impact.impact \in {"major", "minor"} THEN "investigating"
    ELSE IF impact.classification = "capacity_warning" THEN "watch"
    ELSE IF alerts # <<>> THEN "watch" ELSE "resolved"

(* ------------------------ triage/store/memory.py ----------------------- *)
\* find_open returns this when no incident qualifies (Python None)
NoIncident == 0

upsert_incidents(incs, incident) ==
    [iid \in DOMAIN incs \cup {incident.id} |->
        IF iid = incident.id THEN incident ELSE incs[iid]]

\* upsert that appends the id without looking for it in the list
upsert_index_always_append(index, incident) ==
    LET key == <<incident.service, incident.env>>
        ids == IF key \in DOMAIN index THEN index[key] ELSE <<>>
    IN [k \in DOMAIN index \cup {key} |->
           IF k = key THEN Append(ids, incident.id) ELSE index[k]]

upsert_index(index, incident) ==
    LET key == <<incident.service, incident.env>>
        ids == IF key \in DOMAIN index THEN index[key] ELSE <<>>
        ids2 == IF \E i \in 1..Len(ids) : ids[i] = incident.id
                THEN ids ELSE Append(ids, incident.id)
    IN [k \in DOMAIN index \cup {key} |-> IF k = key THEN ids2 ELSE index[k]]

\* find_open that looks through every stored incident, whatever its key
find_open_any_key(incs, index, service, env, t) ==
    LET ids == [i \in DOMAIN incs |-> i]
        cutoff == t - incident_window_minutes
        Open(iid) == /\ incs[iid].status # "resolved"
                     /\ incs[iid].updated_at >= cutoff
        candidates == SelectSeq(ids, Open)
    IN IF candidates = <<>> THEN NoIncident
       ELSE candidates[CHOOSE i \in 1..Len(candidates) :
               /\ \A j \in 1..Len(candidates) :
                     incs[candidates[j]].updated_at <= incs[candidates[i]].updated_at
               /\ \A j \in 1..(i - 1) :
                     incs[candidates[j]].updated_at < incs[candidates[i]].updated_at]

\* find_open with the window test written updated_at > cutoff
find_open_strict_cutoff(incs, index, service, env, t) ==
    LET key == <<service, env>>
        ids == IF key \in DOMAIN index THEN index[key] ELSE <<>>
        cutoff == t - incident_window_minutes
        Open(iid) == /\ iid \in DOMAIN incs
                     /\ incs[iid].status # "resolved"
                     /\ incs[iid].updated_at > cutoff
        candidates == SelectSeq(ids, Open)
    IN IF candidates = <<>> THEN NoIncident
       ELSE candidates[CHOOSE i \in 1..Len(candidates) :
               /\ \A j \in 1..Len(candidates) :
                     incs[candidates[j]].updated_at <= incs[candidates[i]].updated_at
               /\ \A j \in 1..(i - 1) :
                     incs[candidates[j]].updated_at < incs[candidates[i]].updated_at]

\* find_open without the test status != resolved
find_open_any_status(incs, index, service, env, t) ==
    LET key == <<service, env>>
        ids == IF key \in DOMAIN index THEN index[key] ELSE <<>>
        cutoff == t - incident_window_minutes
        Open(iid) == /\ iid \in DOMAIN incs
                     /\ incs[iid].updated_at >= cutoff
        candidates == SelectSeq(ids, Open)
    IN IF candidates = <<>> THEN NoIncident
       ELSE candidates[CHOOSE i \in 1..Len(candidates) :
               /\ \A j \in 1..Len(candidates) :
                     incs[candidates[j]].updated_at <= incs[candidates[i]].updated_at
               /\ \A j \in 1..(i - 1) :
                     incs[candidates[j]].updated_at < incs[candidates[i]].updated_at]

\* max(candidates, key=updated_at): the first of the most recently updated
\* find_open without the look-back window
find_open_no_window(incs, index, service, env, t) ==
    LET key == <<service, env>>
        ids == IF key \in DOMAIN index THEN index[key] ELSE <<>>
        Open(iid) == /\ iid \in DOMAIN incs
                     /\ incs[iid].status # "resolved"
        candidates == SelectSeq(ids, Open)
    IN IF candidates = <<>> THEN NoIncident
       ELSE candidates[CHOOSE i \in 1..Len(candidates) :
               /\ \A j \in 1..Len(candidates) :
                     incs[candidates[j]].updated_at <= incs[candidates[i]].updated_at
               /\ \A j \in 1..(i - 1) :
                     incs[candidates[j]].updated_at < incs[candidates[i]].updated_at]

find_open(incs, index, service, env, t) ==
    LET key == <<service, env>>
        ids == IF key \in DOMAIN index THEN index[key] ELSE <<>>
        cutoff == t - incident_window_minutes
        Open(iid) == /\ iid \in DOMAIN incs
                     /\ incs[iid].status # "resolved"
                     /\ incs[iid].updated_at >= cutoff
        candidates == SelectSeq(ids, Open)
    IN IF candidates = <<>> THEN NoIncident
       ELSE candidates[CHOOSE i \in 1..Len(candidates) :
               /\ \A j \in 1..Len(candidates) :
                     incs[candidates[j]].updated_at <= incs[candidates[i]].updated_at
               /\ \A j \in 1..(i - 1) :
                     incs[candidates[j]].updated_at < incs[candidates[i]].updated_at]

\* seen_recently with the window test written (now - last) < within
seen_recently_strict(cache, incident_id, fingerprint, t) ==
    LET key == <<incident_id, fingerprint>>
    IN IF key \notin DOMAIN cache THEN FALSE
       ELSE (t - cache[key]) < dedupe_window_minutes

seen_recently(cache, incident_id, fingerprint, t) ==
    LET key == <<incident_id, fingerprint>>
    IN IF key \notin DOMAIN cache THEN FALSE
       ELSE (t - cache[key]) <= dedupe_window_minutes

mark_seen(cache, incident_id, fingerprint, t) ==
    LET key == <<incident_id, fingerprint>>
    IN [k \in DOMAIN cache \cup {key} |-> IF k = key THEN t ELSE cache[k]]

(* ----------------------- CorrelationEngine.ingest_event ---------------- *)
\* Incident(id=str(uuid4()), service=..., env=...)
NewIncident(id, service, env, t) ==
    [id |-> id, service |-> service, env |-> env, status |-> "watch",
     created_at |-> t, updated_at |-> t, impact |-> DefaultImpact,
     signals |-> <<>>, alerts |-> <<>>,
     resolution_status |-> "none", resolution_note |-> NoNote]

\* the body of ingest_event with the snapshot refreshed only for an event that
\* carries a reading
Correlate_skip_unmeasured(incident, event, t) ==
    LET ty == event.signal_type
        alerts == Append(incident.alerts, event)
        snapshot == IF ty \in DOMAIN incident.signals
                    THEN <<incident.signals[ty]>> ELSE <<>>
        signals == IF event.observed = None THEN incident.signals
                   ELSE [s \in DOMAIN incident.signals \cup {ty} |->
                           IF s = ty THEN _update_signal_snapshot(snapshot, event, t)
                           ELSE incident.signals[s]]
        prev_impact == incident.impact.impact
        impact == assess_incident(signals)
    IN [incident EXCEPT !.alerts = alerts,
                        !.updated_at = t,
                        !.signals = signals,
                        !.impact = impact,
                        !.status = derive_status(impact, alerts, prev_impact)]

\* the body of ingest_event with the event put at the head of the alert list
Correlate_prepend(incident, event, t) ==
    LET ty == event.signal_type
        alerts == <<event>> \o incident.alerts
        snapshot == IF ty \in DOMAIN incident.signals
                    THEN <<incident.signals[ty]>> ELSE <<>>
        signals == [s \in DOMAIN incident.signals \cup {ty} |->
                      IF s = ty THEN _update_signal_snapshot(snapshot, event, t)
                      ELSE incident.signals[s]]
        prev_impact == incident.impact.impact
        impact == assess_incident(signals)
    IN [incident EXCEPT !.alerts = alerts,
                        !.updated_at = t,
                        !.signals = signals,
                        !.impact = impact,
                        !.status = derive_status(impact, alerts, prev_impact)]

\* the body of ingest_event between mark_seen and upsert
Correlate(incident, event, t) ==
    LET ty == event.signal_type
        alerts == Append(incident.alerts, event)
        snapshot == IF ty \in DOMAIN incident.signals
                    THEN <<incident.signals[ty]>> ELSE <<>>
        signals == [s \in DOMAIN incident.signals \cup {ty} |->
                      IF s = ty THEN _update_signal_snapshot(snapshot, event, t)
                      ELSE incident.signals[s]]
        prev_impact == incident.impact.impact
        impact == assess_incident(signals)
    IN [incident EXCEPT !.alerts = alerts,
                        !.updated_at = t,
                        !.signals = signals,
                        !.impact = impact,
                        !.status = derive_status(impact, alerts, prev_impact)]

TotalAlerts(incs) ==
    LET RECURSIVE Sum(_)
        Sum(S) == IF S = {} THEN 0
                  ELSE LET x == CHOOSE y \in S : TRUE
                       IN Len(incs[x].alerts) + Sum(S \ {x})
    IN Sum(DOMAIN incs)

\* what a call returns: the incident, whether the event was suppressed as a
\* duplicate, whether the incident was created by the call
Result(op, id, dup, created) ==
    [op |-> op, id |-> id, dup |-> dup, created |-> created]

\* the store as one value
Store(incs, index, cache, next) ==
    [incidents |-> incs, service_env_index |-> index, dedupe_cache |-> cache,
     nextId |-> next]

\* ingest_event on store st at clock reading t: the store it leaves and the
\* value it returns; uuid4() is the next unused identifier
ingest_event(st, event, t) ==
    LET found == find_open(st.incidents, st.service_env_index,
                           event.service, event.env, t)
        created == found = NoIncident
        incident == IF created
                    THEN NewIncident(st.nextId, event.service, event.env, t)
                    ELSE st.incidents[found]
        next == IF created THEN st.nextId + 1 ELSE st.nextId
    IN IF seen_recently(st.dedupe_cache, incident.id, event.fingerprint, t)
       THEN [store |-> [st EXCEPT !.nextId = next],
             ret |-> Result("ingest", incident.id, TRUE, created)]
       ELSE LET cache == mark_seen(st.dedupe_cache, incident.id, event.fingerprint, t)
                updated == Correlate(incident, event, t)
            IN [store |-> Store(upsert_incidents(st.incidents, updated),
                                upsert_index(st.service_env_index, updated),
                                cache, next),
                ret |-> Result("ingest", incident.id, FALSE, created)]

Current == Store(incidents, service_env_index, dedupe_cache, nextId)

Install(st) ==
    /\ incidents' = st.incidents
    /\ service_env_index' = st.service_env_index
    /\ dedupe_cache' = st.dedupe_cache
    /\ nextId' = st.nextId

IngestEvent(event) ==
    LET r == ingest_event(Current, event, now)
    IN /\ r.ret.dup \/ TotalAlerts(incidents) < MaxAlerts
       /\ Install(r.store)
       /\ UNCHANGED <<now, calls, downstreamVars>>

(* ------------------------- triage/rate_limit.py ------------------------ *)
RATE_LIMIT_REQUESTS == 3
RATE_LIMIT_WINDOW_SECONDS == 3600

SecondsPerMinute == 60
MinutesPerDay == 1440

\* a timestamp as text: the date, the separator between date and time, the
\* time of day. Day 0 is the day the service starts on; the server's local
\* time is UTC.
Stamp(t, separator) == <<t \div MinutesPerDay, separator, t % MinutesPerDay>>

\* sqlite's CURRENT_TIMESTAMP: "YYYY-MM-DD HH:MM:SS"
CURRENT_TIMESTAMP(t) == Stamp(t, " ")

\* datetime.isoformat(): "YYYY-MM-DDTHH:MM:SS.ffffff"
isoformat(t) == Stamp(t, "T")

\* datetime.fromisoformat() of a stored timestamp
fromisoformat(text) == text[1] * MinutesPerDay + text[3]

\* sqlite compares two texts character by character: the dates first, then
\* the separators (a space sorts before the letter T), then the times
TextLess(a, b) ==
    LET code(separator) == IF separator = " " THEN 0 ELSE 1
    IN \/ a[1] < b[1]
       \/ a[1] = b[1] /\ code(a[2]) < code(b[2])
       \/ a[1] = b[1] /\ a[2] = b[2] /\ a[3] < b[3]

\* the rate_limits table with its primary key (ip_address, request_time), and
\* whether a connection that was never closed still holds the write lock
NoRateLimits == [rows |-> {}, locked |-> FALSE]

\* SELECT COUNT(*) FROM rate_limits WHERE ip_address = ? AND request_time > ?
CountSince(table, ip_address, cutoff) ==
    Cardinality({row \in table.rows :
        row.ip_address = ip_address /\ TextLess(cutoff, row.request_time)})

\* check_rate_limit at clock reading t: the table it leaves and the pair it
\* returns. An INSERT that repeats a stored key raises, and so does every
\* write while the database is locked; both are answered with (True, None),
\* and the connection of the failed INSERT is left open.
check_rate_limit(table, ip_address, t) ==
    LET cutoff == isoformat(t - RATE_LIMIT_WINDOW_SECONDS \div SecondsPerMinute)
        count == CountSince(table, ip_address, cutoff)
        allowed == count < RATE_LIMIT_REQUESTS
        remaining == IF RATE_LIMIT_REQUESTS - count > 0
                     THEN RATE_LIMIT_REQUESTS - count ELSE 0
        row == [ip_address |-> ip_address, request_time |-> CURRENT_TIMESTAMP(t)]
        recorded == IF allowed THEN table.rows \cup {row} ELSE table.rows
    IN IF table.locked
       THEN [table |-> table, allowed |-> TRUE, remaining |-> None]
       ELSE IF allowed /\ row \in table.rows
       THEN [table |-> [table EXCEPT !.locked = TRUE],
             allowed |-> TRUE, remaining |-> None]
       ELSE [table |-> [table EXCEPT !.rows =
                 {r \in recorded : ~TextLess(r.request_time, cutoff)}],
             allowed |-> allowed, remaining |-> remaining]

(* ---------------------------- triage/cache.py -------------------------- *)
CACHE_TTL_SECONDS == 3600

\* no cached content
NoContent == <<>>

\* ReportCache.get at clock reading t: the table it leaves (an expired entry
\* is deleted) and the content it returns
ReportCache_get(table, key, t) ==
    IF key \notin DOMAIN table
    THEN [table |-> table, content |-> NoContent]
    ELSE IF t - fromisoformat(table[key].created_at)
                > CACHE_TTL_SECONDS \div SecondsPerMinute
    THEN [table |-> [k \in DOMAIN table \ {key} |-> table[k]],
          content |-> NoContent]
    ELSE [table |-> table, content |-> table[key].content]

\* ReportCache.set: INSERT OR REPLACE
ReportCache_set(table, key, content, t) ==
    [k \in DOMAIN table \cup {key} |->
        IF k = key THEN [content |-> content, created_at |-> CURRENT_TIMESTAMP(t)]
        ELSE table[k]]

\* DELETE FROM report_cache WHERE incident_id = ?
invalidate_incident(table, incident_id) ==
    [k \in {key \in DOMAIN table : key[1] # incident_id} |-> table[k]]

(* ------------------------------ api/state.py --------------------------- *)
\* asyncio.Queue(maxsize=100)
maxsize == 100

\* EventBus.publish: every subscriber's queue gets the message, a subscriber
\* whose queue is full is dropped
publish(queues, event) ==
    [q \in {s \in DOMAIN queues : Len(queues[s]) < maxsize} |->
        Append(queues[q], event)]

(* ----------------------- api/routes/resolution.py ---------------------- *)
\* ResolutionUpdateRequest
Request(status, note) == [status |-> status, note |-> note]

\* update_resolution with accepted left out of the statuses that resolve
update_resolution_accepted_open(st, incident_id, body) ==
    IF incident_id \notin DOMAIN st.incidents
    THEN [store |-> st, ret |-> Result("not_found", incident_id, FALSE, FALSE)]
    ELSE LET incident == st.incidents[incident_id]
             resolved == [incident EXCEPT
                 !.resolution_status = body.status,
                 !.resolution_note = body.note,
                 !.status = IF body.status \in {"resolved", "auto_closed",
                                                "false_alert"}
                            THEN "resolved" ELSE @]
         IN [store |-> [st EXCEPT
                 !.incidents = upsert_incidents(st.incidents, resolved),
                 !.service_env_index = upsert_index(st.service_env_index, resolved)],
             ret |-> Result("resolution", incident_id, FALSE, FALSE)]

update_resolution(st, incident_id, body) ==
    IF incident_id \notin DOMAIN st.incidents
    THEN [store |-> st, ret |-> Result("not_found", incident_id, FALSE, FALSE)]
    ELSE LET incident == st.incidents[incident_id]
             resolved == [incident EXCEPT
                 !.resolution_status = body.status,
                 !.resolution_note = body.note,
                 !.status = IF body.status \in {"resolved", "auto_closed",
                                                "false_alert", "accepted"}
                            THEN "resolved" ELSE @]
         IN [store |-> [st EXCEPT
                 !.incidents = upsert_incidents(st.incidents, resolved),
                 !.service_env_index = upsert_index(st.service_env_index, resolved)],
             ret |-> Result("resolution", incident_id, FALSE, FALSE)]

\* POST /incidents/{incident_id}/resolution: an incident that is stored is
\* updated, its cached reports are invalidated and the update is published
UpdateResolution(incident_id, body) ==
    LET r == update_resolution(Current, incident_id, body)
    IN /\ Install(r.store)
       /\ IF r.ret.op = "not_found"
          THEN UNCHANGED <<report_cache, subscribers>>
          ELSE /\ report_cache' = invalidate_incident(report_cache, incident_id)
               /\ subscribers' = publish(subscribers, "incident_updated")
       /\ UNCHANGED <<now, calls, rate_limits>>

(* ----------------------- triage/report/generate.py -------------------- *)
\* number of alerts the report keeps in its timeline: incident.alerts[-10:]
ReportWindow == 10

generate_report_object(incident, t) ==
    LET recent == LastN(incident.alerts, ReportWindow)
    IN [incidentId |-> incident.id, service |-> incident.service,
        env |-> incident.env, status |-> incident.status, generatedAt |-> t,
        impact |-> incident.impact,
        signals |-> {incident.signals[ty] : ty \in DOMAIN incident.signals},
        recentAlerts |-> [i \in 1..Len(recent) |->
            [severity |-> recent[i].severity,
             signalType |-> recent[i].signal_type,
             observed |-> recent[i].observed,
             threshold |-> recent[i].threshold]]]

\* report_incident marking the incident as updated by the report
report_incident_touch(st, incident_id, t) ==
    IF incident_id \notin DOMAIN st.incidents
    THEN [store |-> st, ret |-> Result("not_found", incident_id, FALSE, FALSE),
          report |-> <<>>]
    ELSE [store |-> [st EXCEPT !.incidents[incident_id].updated_at = t],
          ret |-> Result("report", incident_id, FALSE, FALSE),
          report |-> <<generate_report_object(st.incidents[incident_id], t)>>]

\* report_incident up to the deterministic report object: what it returns
\* and the store it leaves
report_incident(st, incident_id, t) ==
    IF incident_id \notin DOMAIN st.incidents
    THEN [store |-> st, ret |-> Result("not_found", incident_id, FALSE, FALSE),
          report |-> <<>>]
    ELSE [store |-> st, ret |-> Result("report", incident_id, FALSE, FALSE),
          report |-> <<generate_report_object(st.incidents[incident_id], t)>>]

GenerateReport(incident_id) ==
    LET r == report_incident(Current, incident_id, now)
    IN /\ Install(r.store)
       /\ UNCHANGED <<now, calls, downstreamVars>>

(* ------------------------------- clock --------------------------------- *)
Tick ==
    /\ \E t \in Times : t > now /\ now' = t
    /\ UNCHANGED <<storeVars, nextId, calls, downstreamVars>>

(* --------------------------- specification ----------------------------- *)
\* request threads that run ingest_event at the same time
Callers == {"t1", "t2"}

\* a thread that is not inside ingest_event
Idle == [pc |-> "idle", event |-> <<>>, id |-> NoIncident, created |-> FALSE,
         local |-> <<>>]

\* nothing is recorded, cached or subscribed when the service starts
InitDownstream ==
    /\ rate_limits = NoRateLimits
    /\ report_cache = <<>>
    /\ subscribers = <<>>

Init ==
    /\ calls = [c \in Callers |-> Idle]
    /\ now = 0
    /\ incidents = <<>>
    /\ service_env_index = <<>>
    /\ dedupe_cache = <<>>
    /\ nextId = 1
    /\ InitDownstream

Ingest == \E event \in AlertEvents : IngestEvent(event)

\* the operator's requests; a request that carries none, auto_closed,
\* false_alert or accepted is put to update_resolution by the properties
OperatorRequests == {Request("resolved", note) : note \in Notes}

Resolve ==
    \E incident_id \in 1..nextId, body \in OperatorRequests :
        UpdateResolution(incident_id, body)

Report == \E incident_id \in 1..nextId : GenerateReport(incident_id)

Next == Ingest \/ Resolve \/ Report \/ Tick

Spec == Init /\ [][Next]_vars

(* --------------- ingest_event, one store operation at a time ----------- *)
\* calls in flight that will store an alert
InFlight == Cardinality({c \in Callers : calls[c].pc # "idle"})

\* find_open, and Incident(id=str(uuid4()), ...) when it finds none: the new
\* incident is local to the call until upsert
FindOpen(c, event) ==
    LET found == find_open(incidents, service_env_index, event.service, event.env, now)
        created == found = NoIncident
    IN /\ calls[c].pc = "idle"
       /\ TotalAlerts(incidents) + InFlight < MaxAlerts
       /\ calls' = [calls EXCEPT ![c] =
             [pc |-> "found", event |-> <<event>>,
              id |-> IF created THEN nextId ELSE found,
              created |-> created,
              local |-> IF created
                        THEN <<NewIncident(nextId, event.service, event.env, now)>>
                        ELSE <<>>]]
       /\ nextId' = IF created THEN nextId + 1 ELSE nextId
       /\ UNCHANGED <<storeVars, now, downstreamVars>>

\* seen_recently: a duplicate returns at once
SeenRecently(c) ==
    /\ calls[c].pc = "found"
    /\ calls' = [calls EXCEPT ![c] =
          IF seen_recently(dedupe_cache, calls[c].id, calls[c].event[1].fingerprint, now)
          THEN Idle ELSE [@ EXCEPT !.pc = "unseen"]]
    /\ UNCHANGED <<storeVars, nextId, now, downstreamVars>>

MarkSeen(c) ==
    /\ calls[c].pc = "unseen"
    /\ dedupe_cache' = mark_seen(dedupe_cache, calls[c].id, calls[c].event[1].fingerprint, now)
    /\ calls' = [calls EXCEPT ![c].pc = "marked"]
    /\ UNCHANGED <<incidents, service_env_index, nextId, now, downstreamVars>>

\* the append, the snapshot, the assessment and the status, then upsert; an
\* incident that find_open returned is the stored object itself, so the call
\* works on the incident as the store holds it now
Upsert(c) ==
    LET incident == IF calls[c].created THEN calls[c].local[1]
                    ELSE incidents[calls[c].id]
        updated == Correlate(incident, calls[c].event[1], now)
    IN /\ calls[c].pc = "marked"
       /\ incidents' = upsert_incidents(incidents, updated)
       /\ service_env_index' = upsert_index(service_env_index, updated)
       /\ calls' = [calls EXCEPT ![c] = Idle]
       /\ UNCHANGED <<dedupe_cache, nextId, now, downstreamVars>>

\* the operator resolves an incident while calls are in flight
ResolveDuring ==
    \E incident_id \in DOMAIN incidents, body \in OperatorRequests :
        UpdateResolution(incident_id, body)

\* the calls overlap within one clock reading
NextConc ==
    \/ \E c \in Callers, event \in AlertEvents : FindOpen(c, event)
    \/ \E c \in Callers : SeenRecently(c)
    \/ \E c \in Callers : MarkSeen(c)
    \/ \E c \in Callers : Upsert(c)
    \/ ResolveDuring

\* the request handlers run on a thread pool, without any lock
SpecConc == Init /\ [][NextConc]_vars

(* --------------------------- text values ------------------------------ *)
\* a Python str that the normalizers inspect is the sequence of its characters;
\* the empty sequence stands for "" and for a missing value alike, both being
\* false where the code tests a value
NoText == <<>>

UpperCase == <<"A", "B", "C", "D", "E", "F", "G", "H", "I", "J", "K", "L", "M", "N", "O", "P", "Q", "R", "S", "T", "U", "V", "W", "X", "Y", "Z">>
LowerCase == <<"a", "b", "c", "d", "e", "f", "g", "h", "i", "j", "k", "l", "m", "n", "o", "p", "q", "r", "s", "t", "u", "v", "w", "x", "y", "z">>
Digits == <<"0", "1", "2", "3", "4", "5", "6", "7", "8", "9">>

\* position of the character in the alphabet given, 0 when it is not in it
PositionIn(alphabet, c) ==
    IF \E i \in 1..Len(alphabet) : alphabet[i] = c
    THEN CHOOSE i \in 1..Len(alphabet) : alphabet[i] = c
    ELSE 0

\* str.lower()
lower(s) ==
    [i \in 1..Len(s) |->
        IF PositionIn(UpperCase, s[i]) # 0
        THEN LowerCase[PositionIn(UpperCase, s[i])] ELSE s[i]]

\* str.strip()
strip(s) ==
    LET inked == {i \in 1..Len(s) : s[i] # " "}
    IN IF inked = {} THEN <<>>
       ELSE SubSeq(s, CHOOSE i \in inked : \A j \in inked : i <= j,
                      CHOOSE i \in inked : \A j \in inked : i >= j)

\* tok in s
contains(tok, s) ==
    \E i \in 0..(Len(s) - Len(tok)) : SubSeq(s, i + 1, i + Len(tok)) = tok

\* the text as one value, the way an event stores it
Str(s) ==
    LET RECURSIVE Cat(_)
        Cat(cs) == IF cs = <<>> THEN "" ELSE Head(cs) \o Cat(Tail(cs))
    IN Cat(s)

\* a or b on text
OrText(a, b) == IF a # <<>> THEN a ELSE b

\* d.get(key) on a mapping whose values are text
GetText(d, key) == IF key \in DOMAIN d THEN d[key] ELSE NoText

\* readings are counted in tenths of their unit. str() of a number
NumberText(n) ==
    LET RECURSIVE Dec(_)
        Dec(k) == IF k < 10 THEN <<Digits[k + 1]>>
                  ELSE Append(Dec(k \div 10), Digits[(k % 10) + 1])
    IN IF n % 10 = 0 THEN Dec(n \div 10)
       ELSE Dec(n \div 10) \o <<".", Digits[(n % 10) + 1]>>

\* _parse_float on text: the number in tenths, None when float() raises or
\* the value is missing
_parse_float(value) ==
    LET text == strip(value)
        dots == {i \in 1..Len(text) : text[i] = "."}
        whole == IF dots = {} THEN text
                 ELSE SubSeq(text, 1, (CHOOSE i \in dots : TRUE) - 1)
        frac == IF dots = {} THEN <<>>
                ELSE SubSeq(text, (CHOOSE i \in dots : TRUE) + 1, Len(text))
        AllDigits(cs) == \A i \in 1..Len(cs) : PositionIn(Digits, cs[i]) # 0
        RECURSIVE Val(_)
        Val(cs) == IF cs = <<>> THEN 0
                   ELSE 10 * Val(SubSeq(cs, 1, Len(cs) - 1))
                        + PositionIn(Digits, cs[Len(cs)]) - 1
    IN IF text = <<>> \/ Cardinality(dots) > 1 \/ Len(frac) > 1 THEN None
       ELSE IF ~AllDigits(whole) \/ ~AllDigits(frac) \/ (whole = <<>> /\ frac = <<>>)
       THEN None
       ELSE 10 * Val(whole) + Val(frac)

(* ---------------------- triage/normalize/normalize.py ------------------ *)
\* _parse_severity that compares the value as it is spelled
_parse_severity_case_sensitive(value) ==
    IF value = <<>> THEN "warning"
    ELSE LET s == strip(value)
         IN IF s \in {<<"c", "r", "i", "t", "i", "c", "a", "l">>, <<"c", "r", "i", "t">>, <<"p", "a", "g", "e">>, <<"p", "1">>, <<"h", "i", "g", "h">>}
            THEN "critical"
            ELSE IF s \in {<<"w", "a", "r", "n", "i", "n", "g">>, <<"w", "a", "r", "n">>, <<"p", "2">>, <<"m", "e", "d", "i", "u", "m">>}
            THEN "warning"
            ELSE "info"

_parse_severity(value) ==
    IF value = <<>> THEN "warning"
    ELSE LET s == lower(strip(value))
         IN IF s \in {<<"c", "r", "i", "t", "i", "c", "a", "l">>, <<"c", "r", "i", "t">>, <<"p", "a", "g", "e">>, <<"p", "1">>, <<"h", "i", "g", "h">>}
            THEN "critical"
            ELSE IF s \in {<<"w", "a", "r", "n", "i", "n", "g">>, <<"w", "a", "r", "n">>, <<"p", "2">>, <<"m", "e", "d", "i", "u", "m">>}
            THEN "warning"
            ELSE "info"

\* any(tok in text for tok in toks)
AnyIn(toks, text) == \E tok \in toks : contains(tok, text)

\* _infer_signal_type that reads the name before the hint
_infer_signal_type_name_first(name, labels, annotations) ==
    LET explicit == OrText(GetText(labels, "signal"),
                    OrText(GetText(labels, "signal_type"),
                    OrText(GetText(annotations, "signal"),
                           GetText(annotations, "signal_type"))))
        s == lower(strip(explicit))
        blob == lower(name)
    IN IF AnyIn({<<"s", "a", "t", "u", "r">>, <<"c", "p", "u">>, <<"p", "o", "o", "l">>, <<"c", "a", "p", "a", "c", "i", "t", "y">>, <<"u", "t", "i", "l", "i", "z", "a", "t", "i", "o", "n">>, <<"e", "x", "h", "a", "u", "s", "t">>}, blob)
       THEN "saturation"
       ELSE IF AnyIn({<<"l", "a", "t", "e", "n", "c", "y">>, <<"p", "9", "9">>, <<"p", "9", "5">>, <<"d", "u", "r", "a", "t", "i", "o", "n">>, <<"s", "l", "o", "w">>}, blob)
       THEN "latency"
       ELSE IF AnyIn({<<"e", "r", "r", "o", "r">>, <<"e", "r", "r", "o", "r", "s">>, <<"5", "x", "x">>, <<"e", "x", "c", "e", "p", "t", "i", "o", "n">>, <<"f", "a", "u", "l", "t">>}, blob)
       THEN "errors"
       ELSE IF explicit # <<>> /\ (\/ contains(<<"s", "a", "t", "u", "r">>, s)
                                   \/ s \in {<<"c", "p", "u">>, <<"p", "o", "o", "l">>, <<"c", "a", "p", "a", "c", "i", "t", "y">>})
       THEN "saturation"
       ELSE IF explicit # <<>> /\ AnyIn({<<"l", "a", "t">>, <<"p", "9", "9">>, <<"p", "9", "5">>, <<"s", "l", "o">>}, s)
       THEN "latency"
       ELSE IF explicit # <<>> /\ AnyIn({<<"e", "r", "r">>, <<"5", "x", "x">>}, s)
       THEN "errors"
       ELSE "other"

_infer_signal_type(name, labels, annotations) ==
    LET explicit == OrText(GetText(labels, "signal"),
                    OrText(GetText(labels, "signal_type"),
                    OrText(GetText(annotations, "signal"),
                           GetText(annotations, "signal_type"))))
        s == lower(strip(explicit))
        blob == lower(name)
    IN IF explicit # <<>> /\ (\/ contains(<<"s", "a", "t", "u", "r">>, s)
                              \/ s \in {<<"c", "p", "u">>, <<"p", "o", "o", "l">>, <<"c", "a", "p", "a", "c", "i", "t", "y">>})
       THEN "saturation"
       ELSE IF explicit # <<>> /\ AnyIn({<<"l", "a", "t">>, <<"p", "9", "9">>, <<"p", "9", "5">>, <<"s", "l", "o">>}, s)
       THEN "latency"
       ELSE IF explicit # <<>> /\ AnyIn({<<"e", "r", "r">>, <<"5", "x", "x">>}, s)
       THEN "errors"
       ELSE IF AnyIn({<<"s", "a", "t", "u", "r">>, <<"c", "p", "u">>, <<"p", "o", "o", "l">>, <<"c", "a", "p", "a", "c", "i", "t", "y">>, <<"u", "t", "i", "l", "i", "z", "a", "t", "i", "o", "n">>, <<"e", "x", "h", "a", "u", "s", "t">>},
                     blob)
       THEN "saturation"
       ELSE IF AnyIn({<<"l", "a", "t", "e", "n", "c", "y">>, <<"p", "9", "9">>, <<"p", "9", "5">>, <<"d", "u", "r", "a", "t", "i", "o", "n">>, <<"s", "l", "o", "w">>}, blob)
       THEN "latency"
       ELSE IF AnyIn({<<"e", "r", "r", "o", "r">>, <<"e", "r", "r", "o", "r", "s">>, <<"5", "x", "x">>, <<"e", "x", "c", "e", "p", "t", "i", "o", "n">>, <<"f", "a", "u", "l", "t">>}, blob)
       THEN "errors"
       ELSE "other"

\* t.split(":", 1) of a tag that holds a colon: the key and the value
SplitTag(t) ==
    LET colons == {i \in 1..Len(t) : t[i] = ":"}
        at == CHOOSE i \in colons : \A j \in colons : i <= j
    IN [k |-> lower(strip(SubSeq(t, 1, at - 1))),
        v |-> strip(SubSeq(t, at + 1, Len(t)))]

\* the pair (service, env) read from the labels alone
_extract_service_env_labels_only(labels, tags) ==
    <<OrText(GetText(labels, "service"),
      OrText(GetText(labels, "app"),
      OrText(GetText(labels, "job"),
      OrText(GetText(labels, "component"), <<"u", "n", "k", "n", "o", "w", "n">>)))),
      OrText(GetText(labels, "env"),
      OrText(GetText(labels, "environment"), <<"p", "r", "o", "d">>))>>

\* the pair (service, env); tags is the list of tag texts, <<>> when none
_extract_service_env(labels, tags) ==
    LET service0 == OrText(GetText(labels, "service"),
                    OrText(GetText(labels, "app"),
                    OrText(GetText(labels, "job"),
                    OrText(GetText(labels, "component"), <<"u", "n", "k", "n", "o", "w", "n">>))))
        env0 == OrText(GetText(labels, "env"),
                OrText(GetText(labels, "environment"), <<"p", "r", "o", "d">>))
        RECURSIVE Walk(_, _)
        Walk(i, acc) ==
            IF i > Len(tags) THEN acc
            ELSE IF ~contains(<<":">>, tags[i]) THEN Walk(i + 1, acc)
            ELSE LET kv == SplitTag(tags[i])
                     service == IF kv.k = <<"s", "e", "r", "v", "i", "c", "e">> /\ acc[1] = <<"u", "n", "k", "n", "o", "w", "n">>
                                THEN kv.v ELSE acc[1]
                     env == IF kv.k \in {<<"e", "n", "v">>, <<"e", "n", "v", "i", "r", "o", "n", "m", "e", "n", "t">>}
                            THEN kv.v ELSE acc[2]
                 IN Walk(i + 1, <<service, env>>)
    IN Walk(1, <<service0, env0>>)

\* str() of the reading a mapping holds under the key, no text when it holds
\* none: the payload carries readings as numbers
ReadingText(d, key) == IF key \in DOMAIN d THEN NumberText(d[key]) ELSE NoText

\* d.get(key) of a reading, None when the mapping holds none
GetNum(d, key) == IF key \in DOMAIN d THEN d[key] ELSE None

\* a or b on readings: None and 0 are both false
OrNum(a, b) == IF a # None /\ a # 0 THEN a ELSE b

\* stable_fingerprint(*parts) on text parts: each part stripped
Fingerprint(parts) ==
    stable_fingerprint([i \in 1..Len(parts) |-> Str(strip(parts[i]))])

\* signal_type.value as text
TypeText(signal_type) ==
    IF signal_type = "saturation" THEN <<"s", "a", "t", "u", "r", "a", "t", "i", "o", "n">>
    ELSE IF signal_type = "latency" THEN <<"l", "a", "t", "e", "n", "c", "y">>
    ELSE IF signal_type = "errors" THEN <<"e", "r", "r", "o", "r", "s">>
    ELSE <<"o", "t", "h", "e", "r">>

\* the AlertEvent a normalizer returns
AlertEvent(service, env, severity, signal_type, observed, threshold, fingerprint) ==
    [service |-> Str(service), env |-> Str(env), severity |-> severity,
     signal_type |-> signal_type, observed |-> observed, threshold |-> threshold,
     fingerprint |-> fingerprint]

\* the provider argument when the caller names none (Python None)
NoProvider == "None"

(* ------------------------ triage/normalize/detect.py ------------------- *)
detect_provider(payload) ==
    IF "alerts" \in DOMAIN payload THEN "prometheus"
    ELSE IF "event_type" \in DOMAIN payload /\ "alert_type" \in DOMAIN payload
    THEN "datadog"
    ELSE IF \/ "incident" \in DOMAIN payload
            \/ contains(<<"b", "e", "t", "t", "e", "r", "s", "t", "a", "c", "k">>, lower(GetText(payload, "source")))
    THEN "betterstack"
    ELSE "generic"

(* ---------------------- the normalizers, per provider ------------------ *)
\* one alert of an Alertmanager payload
PrometheusAlert(a) ==
    LET labels == IF "labels" \in DOMAIN a THEN a.labels ELSE <<>>
        annotations == IF "annotations" \in DOMAIN a THEN a.annotations ELSE <<>>
        key == _extract_service_env(labels, <<>>)
        name == OrText(GetText(labels, "alertname"),
                OrText(GetText(annotations, "title"), <<"p", "r", "o", "m", "e", "t", "h", "e", "u", "s", "_", "a", "l", "e", "r", "t">>))
        signal_type == _infer_signal_type(name, labels, annotations)
        observed == _parse_float(OrText(ReadingText(annotations, "observed"),
                                        ReadingText(labels, "observed")))
        threshold == _parse_float(OrText(ReadingText(annotations, "threshold"),
                                         ReadingText(labels, "threshold")))
        severity == _parse_severity(OrText(GetText(labels, "severity"),
                                           GetText(annotations, "severity")))
    IN AlertEvent(key[1], key[2], severity, signal_type, observed, threshold,
                  Fingerprint(<<<<"p", "r", "o", "m", "e", "t", "h", "e", "u", "s">>, key[1], key[2], TypeText(signal_type),
                                GetText(labels, "alertname"),
                                GetText(labels, "instance")>>))

normalize_prometheus(payload) ==
    LET alerts == IF "alerts" \in DOMAIN payload THEN payload.alerts ELSE <<>>
    IN [i \in 1..Len(alerts) |-> PrometheusAlert(alerts[i])]

normalize_datadog(payload) ==
    LET tags == IF "tags" \in DOMAIN payload THEN payload.tags ELSE <<>>
        title == OrText(GetText(payload, "title"),
                 OrText(GetText(payload, "event_title"), <<"d", "a", "t", "a", "d", "o", "g", "_", "a", "l", "e", "r", "t">>))
        text == OrText(GetText(payload, "text"), GetText(payload, "message"))
        labels == [title |-> title]
        annotations == [text |-> text]
        key == _extract_service_env(<<>>, tags)
        signal_type == _infer_signal_type(title, labels, annotations)
        observed == GetNum(payload, "observed")
        threshold == GetNum(payload, "threshold")
        severity == _parse_severity(OrText(GetText(payload, "alert_type"),
                                           GetText(payload, "severity")))
    IN << AlertEvent(key[1], key[2], severity, signal_type, observed, threshold,
                     Fingerprint(<<<<"d", "a", "t", "a", "d", "o", "g">>, key[1], key[2], TypeText(signal_type),
                                   GetText(payload, "id"), title>>)) >>

normalize_betterstack(payload) ==
    LET incident == IF "incident" \in DOMAIN payload THEN payload.incident ELSE payload
        labels == IF "labels" \in DOMAIN incident THEN incident.labels ELSE <<>>
        annotations == IF "annotations" \in DOMAIN incident
                       THEN incident.annotations ELSE <<>>
        service == OrText(GetText(incident, "service"),
                   OrText(GetText(labels, "service"), <<"u", "n", "k", "n", "o", "w", "n">>))
        env == OrText(GetText(incident, "env"),
               OrText(GetText(labels, "env"), <<"p", "r", "o", "d">>))
        title == OrText(GetText(incident, "name"),
                 OrText(GetText(incident, "title"), <<"b", "e", "t", "t", "e", "r", "s", "t", "a", "c", "k", "_", "i", "n", "c", "i", "d", "e", "n", "t">>))
        signal_type == _infer_signal_type(title, labels, annotations)
        observed == OrNum(GetNum(incident, "observed"),
                          _parse_float(ReadingText(annotations, "observed")))
        threshold == OrNum(GetNum(incident, "threshold"),
                           _parse_float(ReadingText(annotations, "threshold")))
        severity == _parse_severity(OrText(GetText(incident, "severity"),
                                           GetText(incident, "status")))
    IN << AlertEvent(service, env, severity, signal_type, observed, threshold,
                     Fingerprint(<<<<"b", "e", "t", "t", "e", "r", "s", "t", "a", "c", "k">>, service, env, TypeText(signal_type),
                                   GetText(incident, "id"), title>>)) >>

\* the branch of normalize_payload for a provider it has no normalizer for
normalize_generic(payload) ==
    LET service == OrText(GetText(payload, "service"), <<"u", "n", "k", "n", "o", "w", "n">>)
        env == OrText(GetText(payload, "env"), <<"p", "r", "o", "d">>)
        name == OrText(GetText(payload, "name"),
                OrText(GetText(payload, "title"), <<"g", "e", "n", "e", "r", "i", "c", "_", "a", "l", "e", "r", "t">>))
        labels == IF "labels" \in DOMAIN payload THEN payload.labels ELSE <<>>
        annotations == IF "annotations" \in DOMAIN payload
                       THEN payload.annotations ELSE <<>>
        signal_type == _infer_signal_type(name, labels, annotations)
        severity == _parse_severity(GetText(payload, "severity"))
    IN << AlertEvent(service, env, severity, signal_type,
                     GetNum(payload, "observed"), GetNum(payload, "threshold"),
                     Fingerprint(<<<<"g", "e", "n", "e", "r", "i", "c">>, service, env, TypeText(signal_type), name>>)) >>

normalize_payload(provider, payload) ==
    LET chosen == IF provider = NoProvider THEN detect_provider(payload) ELSE provider
    IN IF chosen = "prometheus" THEN normalize_prometheus(payload)
       ELSE IF chosen = "datadog" THEN normalize_datadog(payload)
       ELSE IF chosen = "betterstack" THEN normalize_betterstack(payload)
       ELSE normalize_generic(payload)

(* ----------------------- triage/scenarios/builtins.py ------------------ *)
\* the items of the built-in scenarios, with the fields the normalizers and
\* detect_provider read; readings in tenths
saturation_only(service, env) ==
    << [provider |-> <<"p", "r", "o", "m", "e", "t", "h", "e", "u", "s">>,
        payload |-> [alerts |-> <<
            [labels |-> [alertname |-> <<"S", "e", "r", "v", "i", "c", "e", "S", "a", "t", "u", "r", "a", "t", "i", "o", "n", "H", "i", "g", "h">>,
                         service |-> service, env |-> env,
                         severity |-> <<"c", "r", "i", "t", "i", "c", "a", "l">>,
                         metric |-> <<"c", "p", "u", "_", "u", "t", "i", "l", "i", "z", "a", "t", "i", "o", "n">>],
             annotations |-> [observed |-> 1000, threshold |-> 950,
                              signal_type |-> <<"s", "a", "t", "u", "r", "a", "t", "i", "o", "n">>]] >>]],
       [provider |-> <<"d", "a", "t", "a", "d", "o", "g">>,
        payload |-> [event_type |-> <<"m", "o", "n", "i", "t", "o", "r", "_", "a", "l", "e", "r", "t">>,
                     alert_type |-> <<"i", "n", "f", "o">>,
                     title |-> service \o <<":", " ", "p", "9", "9", " ", "l", "a", "t", "e", "n", "c", "y", " ", "w", "i", "t", "h", "i", "n", " ", "S", "L", "O">>,
                     text |-> <<"L", "a", "t", "e", "n", "c", "y", " ", "i", "s", " ", "s", "t", "a", "b", "l", "e", " ", "a", "n", "d", " ", "w", "i", "t", "h", "i", "n", " ", "S", "L", "O", ".">>,
                     tags |-> <<<<"s", "e", "r", "v", "i", "c", "e", ":">> \o service, <<"e", "n", "v", ":">> \o env>>,
                     observed |-> 1800, threshold |-> 4000]],
       [provider |-> <<"b", "e", "t", "t", "e", "r", "s", "t", "a", "c", "k">>,
        payload |-> [incident |->
            [id |-> <<"b", "s", "-", "0", "0", "1">>,
             name |-> service \o <<":", " ", "e", "r", "r", "o", "r", " ", "r", "a", "t", "e", " ", "n", "o", "r", "m", "a", "l">>,
             service |-> service, env |-> env,
             severity |-> <<"i", "n", "f", "o">>,
             observed |-> 2, threshold |-> 10,
             labels |-> [signal_type |-> <<"e", "r", "r", "o", "r", "s">>]]]] >>

full_outage(service, env) ==
    << [provider |-> <<"p", "r", "o", "m", "e", "t", "h", "e", "u", "s">>,
        payload |-> [alerts |-> <<
            [labels |-> [alertname |-> <<"S", "e", "r", "v", "i", "c", "e", "E", "r", "r", "o", "r", "R", "a", "t", "e", "H", "i", "g", "h">>,
                         service |-> service, env |-> env,
                         severity |-> <<"c", "r", "i", "t", "i", "c", "a", "l">>,
                         metric |-> <<"h", "t", "t", "p", "_", "5", "x", "x", "_", "r", "a", "t", "e">>],
             annotations |-> [observed |-> 72, threshold |-> 10,
                              signal_type |-> <<"e", "r", "r", "o", "r", "s">>]] >>]],
       [provider |-> <<"d", "a", "t", "a", "d", "o", "g">>,
        payload |-> [event_type |-> <<"m", "o", "n", "i", "t", "o", "r", "_", "a", "l", "e", "r", "t">>,
                     alert_type |-> <<"c", "r", "i", "t", "i", "c", "a", "l">>,
                     title |-> service \o <<":", " ", "p", "9", "9", " ", "l", "a", "t", "e", "n", "c", "y", " ", "h", "i", "g", "h">>,
                     text |-> <<"L", "a", "t", "e", "n", "c", "y", " ", "i", "s", " ", "a", "b", "o", "v", "e", " ", "S", "L", "O", ".">>,
                     tags |-> <<<<"s", "e", "r", "v", "i", "c", "e", ":">> \o service, <<"e", "n", "v", ":">> \o env>>,
                     observed |-> 18000, threshold |-> 4000]],
       [provider |-> <<"b", "e", "t", "t", "e", "r", "s", "t", "a", "c", "k">>,
        payload |-> [incident |->
            [id |-> <<"b", "s", "-", "9", "9", "9">>,
             name |-> service \o <<":", " ", "s", "a", "t", "u", "r", "a", "t", "i", "o", "n", " ", "c", "r", "i", "t", "i", "c", "a", "l">>,
             service |-> service, env |-> env,
             severity |-> <<"c", "r", "i", "t", "i", "c", "a", "l">>,
             observed |-> 998, threshold |-> 950,
             labels |-> [signal_type |-> <<"s", "a", "t", "u", "r", "a", "t", "i", "o", "n">>]]]] >>

\* the scenarios by the name the route is called with, with the default
\* service and environment
ScenarioNames == {"saturation_only", "full_outage"}

get_scenario(name) ==
    IF name = "saturation_only"
    THEN saturation_only(<<"c", "h", "e", "c", "k", "o", "u", "t">>, <<"p", "r", "o", "d">>)
    ELSE full_outage(<<"c", "h", "e", "c", "k", "o", "u", "t">>, <<"p", "r", "o", "d">>)

(* ------------------ api/routes/ingest.py, scenarios.py ----------------- *)
Providers == {<<"p", "r", "o", "m", "e", "t", "h", "e", "u", "s">>, <<"d", "a", "t", "a", "d", "o", "g">>, <<"b", "e", "t", "t", "e", "r", "s", "t", "a", "c", "k">>, <<"g", "e", "n", "e", "r", "i", "c">>}

\* the Provider the text names, NoProvider when it names none or is empty
_parse_provider(value) ==
    IF lower(strip(value)) \in Providers THEN Str(lower(strip(value))) ELSE NoProvider

\* for ev in alert_events: engine.ingest_event(ev)
IngestEvents(st, alert_events, t) ==
    LET RECURSIVE Fold(_)
        Fold(n) == IF n = 0 THEN st
                   ELSE ingest_event(Fold(n - 1), alert_events[n], t).store
    IN Fold(Len(alert_events))

\* the items of the built-in scenarios
ScenarioItems ==
    UNION {{get_scenario(name)[i] : i \in 1..Len(get_scenario(name))} :
               name \in ScenarioNames}

\* the requests a client may post: an item with its provider named, or with
\* no provider named
ScenarioRequests ==
    ScenarioItems \cup {[item EXCEPT !.provider = NoText] : item \in ScenarioItems}

\* normalize_payload(provider=_parse_provider(req.provider), payload=req.payload)
\* for each of the requests, worked out once
alert_events[req \in ScenarioRequests] ==
    normalize_payload(_parse_provider(req.provider), req.payload)

\* POST /ingest: the store it leaves
ingest(st, req, t) == IngestEvents(st, alert_events[req], t)

\* POST /scenarios/{scenario}: the store it leaves
run_scenario(st, scenario, t) ==
    LET items == get_scenario(scenario)
        RECURSIVE Fold(_)
        Fold(n) == IF n = 0 THEN st ELSE ingest(Fold(n - 1), items[n], t)
    IN Fold(Len(items))

PostIngest(req) ==
    LET st == ingest(Current, req, now)
    IN /\ TotalAlerts(st.incidents) <= MaxAlerts
       /\ Install(st)
       /\ UNCHANGED <<now, calls, downstreamVars>>

RunScenario(scenario) ==
    LET st == run_scenario(Current, scenario, now)
    IN /\ TotalAlerts(st.incidents) <= MaxAlerts
       /\ Install(st)
       /\ UNCHANGED <<now, calls, downstreamVars>>

\* clock readings of the scenario runs: 2 is the last minute inside the dedupe
\* window of 0, 60 the last minute inside the look-back window of 0
ScenarioTimes == {0, 2, 60}

Post == \E req \in ScenarioRequests : PostIngest(req)

Play == \E scenario \in ScenarioNames : RunScenario(scenario)

Wait ==
    /\ \E t \in ScenarioTimes : t > now /\ now' = t
    /\ UNCHANGED <<storeVars, nextId, calls, downstreamVars>>

NextScenario == Post \/ Play \/ Wait

SpecScenario == Init /\ [][NextScenario]_vars

(* ------------- the classifier on incidents of every shape -------------- *)
SignalStates == {"ok", "warning", "critical"}
Trends == {"up", "down", "flat", "unknown"}
ImpactLevels == {"none", "minor", "major"}
IncidentStatuses == {"watch", "investigating", "mitigating", "resolved"}

\* the classifications assess_incident writes, and the one a new incident has
Classifications ==
    {"outage", "error_spike", "latency_degradation", "degradation_possible",
     "capacity_warning", "investigate", "healthy", "unknown"}

\* previous_impact: an impact level, or "absent" for Python None
PreviousImpacts == ImpactLevels \cup {"absent"}

\* a history _compute_trend reads the trend from
HistoryOf(trend) ==
    IF trend = "up" THEN <<1, 2, 3>>
    ELSE IF trend = "down" THEN <<3, 2, 1>>
    ELSE IF trend = "flat" THEN <<2, 2, 2>>
    ELSE <<>>

\* a SignalSnapshot whose last event carried no reading
SnapshotOf(ty, state, trend) ==
    [signal_type |-> ty, state |-> state, trend |-> trend, observed |-> None,
     threshold |-> None, last_updated_at |-> 0, history |-> HistoryOf(trend)]

\* no snapshot of the type, or one snapshot in any state with any trend
SnapshotChoices(ty) ==
    {<<>>} \cup {<<SnapshotOf(ty, state, trend)>> : state \in SignalStates, trend \in Trends}

\* the signals map that holds the chosen snapshots
SignalsOf(errors, latency, saturation, other) ==
    LET chosen == [ty \in SignalTypes |->
                     IF ty = "errors" THEN errors
                     ELSE IF ty = "latency" THEN latency
                     ELSE IF ty = "saturation" THEN saturation
                     ELSE other]
    IN [ty \in {x \in SignalTypes : chosen[x] # <<>>} |-> chosen[ty][1]]

SignalMaps ==
    {SignalsOf(errors, latency, saturation, other) :
        errors \in SnapshotChoices("errors"),
        latency \in SnapshotChoices("latency"),
        saturation \in SnapshotChoices("saturation"),
        other \in {<<>>, <<SnapshotOf("other", "critical", "up")>>}}

\* the assessments an incident may carry: every level with every classification
Assessments ==
    {Assessment(level, 50, class) : level \in ImpactLevels, class \in Classifications}

\* the incident under classification: its signals, impact and alerts are free
Subject(signals, impact, alerts) ==
    [NewIncident(1, "api", "prod", 0) EXCEPT
        !.signals = signals, !.impact = impact, !.alerts = alerts]

AlertLists == {<<>>, <<Event("api", "prod", "other", "O", "info", None, None)>>}

InitClassify ==
    /\ calls = [c \in Callers |-> Idle]
    /\ InitDownstream
    /\ now = 0
    /\ nextId = 2
    /\ dedupe_cache = <<>>
    /\ service_env_index = (<<"api", "prod">> :> <<1>>)
    /\ \/ \E signals \in SignalMaps, alerts \in AlertLists :
             incidents = <<Subject(signals, DefaultImpact, alerts)>>
       \/ \E impact \in Assessments, alerts \in AlertLists :
             incidents = <<Subject(<<>>, impact, alerts)>>

\* ingest_event's classification step: the previous impact is read, the
\* incident is assessed, the status is derived from both
Reassess(incident_id) ==
    LET incident == incidents[incident_id]
        prev_impact == incident.impact.impact
        impact == assess_incident(incident.signals)
    IN /\ incidents' = [incidents EXCEPT ![incident_id] =
             [incident EXCEPT !.impact = impact,
                              !.status = derive_status(impact, incident.alerts, prev_impact)]]
       /\ UNCHANGED <<now, service_env_index, dedupe_cache, nextId, calls, downstreamVars>>

\* derive_status on the assessment the incident carries
DeriveStatus(incident_id, previous_impact) ==
    LET incident == incidents[incident_id]
    IN /\ incidents' = [incidents EXCEPT ![incident_id].status =
             derive_status(incident.impact, incident.alerts, previous_impact)]
       /\ UNCHANGED <<now, service_env_index, dedupe_cache, nextId, calls, downstreamVars>>

Classify == \E incident_id \in DOMAIN incidents : Reassess(incident_id)

Derive ==
    \E incident_id \in DOMAIN incidents, previous_impact \in PreviousImpacts :
        DeriveStatus(incident_id, previous_impact)

NextClassify == Classify \/ Derive

SpecClassify == InitClassify /\ [][NextClassify]_vars

(* ---------------------- CorrelationEngine.ingest ----------------------- *)
\* whether the sequence holds the value
Holds(s, x) == \E i \in 1..Len(s) : s[i] = x

\* ingest that moves an incident touched again to the end of its answer
CorrelationEngine_ingest_last_touched(st, events, t) ==
    LET RECURSIVE Loop(_)
        Loop(n) ==
            IF n = 0 THEN [store |-> st, updated |-> <<>>]
            ELSE LET prev == Loop(n - 1)
                     r == ingest_event(prev.store, events[n], t)
                 IN [store |-> r.store,
                     updated |-> Append(SelectSeq(prev.updated,
                                                  LAMBDA x : x # r.ret.id),
                                        r.ret.id)]
        done == Loop(Len(events))
    IN [store |-> done.store, ret |-> done.updated]

\* CorrelationEngine.ingest: the store it leaves and the identifiers of the
\* incidents it returns, which are the keys of the dict updated in insertion
\* order; assigning to a key the dict holds keeps the key's place
CorrelationEngine_ingest(st, events, t) ==
    LET RECURSIVE Loop(_)
        Loop(n) ==
            IF n = 0 THEN [store |-> st, updated |-> <<>>]
            ELSE LET prev == Loop(n - 1)
                     r == ingest_event(prev.store, events[n], t)
                 IN [store |-> r.store,
                     updated |-> IF Holds(prev.updated, r.ret.id)
                                 THEN prev.updated
                                 ELSE Append(prev.updated, r.ret.id)]
        done == Loop(Len(events))
    IN [store |-> done.store, ret |-> done.updated]

\* POST /ingest, from the loop over alert_events on: incident_ids, then
\* incident_ids_unique
incident_ids_unique(st, events, t) ==
    LET RECURSIVE Ids(_)
        Ids(n) ==
            IF n = 0 THEN [store |-> st, incident_ids |-> <<>>]
            ELSE LET prev == Ids(n - 1)
                     r == ingest_event(prev.store, events[n], t)
                 IN [store |-> r.store,
                     incident_ids |-> Append(prev.incident_ids, r.ret.id)]
        incident_ids == Ids(Len(events)).incident_ids
        RECURSIVE Unique(_)
        Unique(n) ==
            IF n = 0 THEN [seen |-> {}, out |-> <<>>]
            ELSE LET prev == Unique(n - 1)
                     iid == incident_ids[n]
                 IN IF iid \in prev.seen THEN prev
                    ELSE [seen |-> prev.seen \cup {iid},
                          out |-> Append(prev.out, iid)]
    IN Unique(Len(incident_ids)).out

\* the batches a caller hands to ingest: a warning and a recovery that share
\* a fingerprint on one service, a warning on the other service
BatchEvents == {event \in AlertEvents : event.severity \in {"warning", "info"}}

Batches ==
    UNION {[1..n -> BatchEvents] : n \in 0..MaxBatch}

IngestBatch(events) ==
    LET r == CorrelationEngine_ingest(Current, events, now)
    IN /\ TotalAlerts(r.store.incidents) <= MaxAlerts
       /\ Install(r.store)
       /\ UNCHANGED <<now, calls, downstreamVars>>

Batch == \E events \in Batches : IngestBatch(events)

NextBatch == Batch \/ Tick

SpecBatch == Init /\ [][NextBatch]_vars

(* ------------- normalize_payload on payloads of every shape ------------ *)
\* A payload as the JSON kinds of the values the normalizers read. A value of
\* kind string, number, array or object is a non-empty text, a number other
\* than 0, a non-empty list or a non-empty mapping, so it is true where
\* Python tests it; a key that is missing reads as absent.
ValueKinds == {"absent", "null", "string", "number", "array", "object"}

\* the entry of a list under "alerts": none when the list is empty
EntryKinds == {"none", "null", "string", "number", "array", "object"}

\* kind: the payload itself; alerts, source, incident: the values under these
\* keys of an object payload; entry: the one entry of a list under alerts;
\* labels, annotations: the values under these keys wherever a normalizer
\* reads them; monitor: the keys event_type and alert_type are both present
Shape(kind, alerts, entry, labels, annotations, source, incident, monitor) ==
    [kind |-> kind, alerts |-> alerts, entry |-> entry, labels |-> labels,
     annotations |-> annotations, source |-> source, incident |-> incident,
     monitor |-> monitor]

PayloadShapes ==
    {Shape(kind, "absent", "none", "absent", "absent", "absent", "absent", FALSE) :
        kind \in {"null", "string", "number", "array"}}
    \cup {Shape("object", alerts, entry, labels, annotations, source, incident, monitor) :
            alerts \in ValueKinds, entry \in EntryKinds,
            labels \in {"absent", "string", "object"},
            annotations \in {"absent", "array", "object"},
            source \in {"absent", "null", "string", "number"},
            incident \in {"absent", "object"}, monitor \in BOOLEAN}

\* an entry is described only for a list under alerts
WellFormedShape(payload) == payload.entry # "none" => payload.alerts = "array"

\* what a call does: it raises, or it returns a number of events
Raises == [raised |-> TRUE, events |-> 0]
Returns(n) == [raised |-> FALSE, events |-> n]

\* x or {} followed by .items(): a true value that is no mapping has no items
ItemsRaises(kind) == kind \in {"string", "number", "array"}

\* detect_provider: the provider, or "raises" when payload.get("source", "")
\* is a value without lower()
detect_provider_of(payload) ==
    IF payload.kind # "object" THEN "generic"
    ELSE IF payload.alerts = "array" THEN "prometheus"
    ELSE IF payload.monitor THEN "datadog"
    ELSE IF payload.incident # "absent" THEN "betterstack"
    ELSE IF payload.source \in {"null", "number"} THEN "raises"
    ELSE "generic"

\* normalize_prometheus: the loop over payload.get("alerts", []) or []
normalize_prometheus_of(payload) ==
    IF payload.alerts \in {"absent", "null"} THEN Returns(0)
    ELSE IF payload.alerts = "number" THEN Raises
    ELSE IF payload.alerts \in {"string", "object"} THEN Raises
    ELSE IF payload.entry = "none" THEN Returns(0)
    ELSE IF payload.entry # "object" THEN Raises
    ELSE IF ItemsRaises(payload.labels) \/ ItemsRaises(payload.annotations)
    THEN Raises
    ELSE Returns(1)

\* normalize_betterstack: labels and annotations of the incident
normalize_betterstack_of(payload) ==
    IF ItemsRaises(payload.labels) \/ ItemsRaises(payload.annotations)
    THEN Raises
    ELSE Returns(1)

\* normalize_payload on a provider hint and a payload
normalize_payload_of(provider, payload) ==
    LET detected == IF provider = NoProvider THEN detect_provider_of(payload)
                    ELSE provider
    IN IF detected = "raises" THEN Raises
       ELSE IF payload.kind # "object" THEN Returns(0)
       ELSE IF detected = "prometheus" THEN normalize_prometheus_of(payload)
       ELSE IF detected = "datadog" THEN Returns(1)
       ELSE IF detected = "betterstack" THEN normalize_betterstack_of(payload)
       ELSE Returns(1)

\* the requests: a provider hint, or none, and a payload
MalformedRequests ==
    {[provider |-> provider, payload |-> payload] :
        provider \in {NoProvider, "prometheus", "datadog", "betterstack", "generic"},
        payload \in {p \in PayloadShapes : WellFormedShape(p)}}

\* no request is being served
AllIdle == \A c \in Callers : calls[c].pc = "idle"

\* a request thread is handed the arguments of a call
Enter(c, op, args) ==
    /\ calls[c].pc = "idle"
    /\ calls' = [calls EXCEPT ![c] = [Idle EXCEPT !.pc = op, !.event = args]]
    /\ UNCHANGED <<now, storeVars, nextId, downstreamVars>>

\* the call ends: it returned a value or raised
Leave(c, op, pc, value) ==
    /\ calls[c].pc = op
    /\ calls' = [calls EXCEPT ![c].pc = pc, ![c].local = value \o <<op>>]
    /\ UNCHANGED <<now, storeVars, nextId, downstreamVars>>

\* the thread is free again
Respond(c) ==
    /\ calls[c].pc \in {"returned", "raised"}
    /\ calls' = [calls EXCEPT ![c] = Idle]
    /\ UNCHANGED <<now, storeVars, nextId, downstreamVars>>

NormalizePayload(c) ==
    /\ calls[c].pc = "normalize_payload"
    /\ LET req == calls[c].event[1]
           out == normalize_payload_of(req.provider, req.payload)
       IN Leave(c, "normalize_payload",
                IF out.raised THEN "raised" ELSE "returned", <<out.events>>)

Receive ==
    /\ AllIdle
    /\ \E c \in Callers, req \in MalformedRequests :
          Enter(c, "normalize_payload", <<req>>)

Normalize == \E c \in Callers : NormalizePayload(c)

Done == \E c \in Callers : Respond(c)

NextMalformed == Receive \/ Normalize \/ Done

SpecMalformed == Init /\ [][NextMalformed]_vars

(* ---------------- the normalizer's functions on their inputs ----------- *)
\* str.upper()
upper(s) ==
    [i \in 1..Len(s) |->
        IF PositionIn(LowerCase, s[i]) # 0
        THEN UpperCase[PositionIn(LowerCase, s[i])] ELSE s[i]]

\* a text as providers write it: as it is, in capitals, with a capital initial,
\* with blanks around it, and with a character too many at either end
Spellings(s) ==
    {s, upper(s), upper(SubSeq(s, 1, 1)) \o SubSeq(s, 2, Len(s)),
     <<" ">> \o s, s \o <<" ", " ">>, s \o <<"x">>, <<"x">> \o s}

\* the severities providers send, and values that are none of them; the
\* empty text is a missing or an empty value
SeverityWords ==
    {<<"c", "r", "i", "t", "i", "c", "a", "l">>,
     <<"c", "r", "i", "t">>,
     <<"p", "a", "g", "e">>,
     <<"p", "1">>,
     <<"h", "i", "g", "h">>,
     <<"w", "a", "r", "n", "i", "n", "g">>,
     <<"w", "a", "r", "n">>,
     <<"p", "2">>,
     <<"m", "e", "d", "i", "u", "m">>,
     <<"i", "n", "f", "o">>,
     <<"l", "o", "w">>,
     <<"o", "k">>,
     <<"e", "r", "r", "o", "r">>,
     <<"p", "3">>,
     <<"f", "a", "t", "a", "l">>}

SeverityValues ==
    UNION {Spellings(word) : word \in SeverityWords} \cup {NoText, <<" ">>}

ParseSeverity(c) ==
    Leave(c, "_parse_severity", "returned", <<_parse_severity(calls[c].event[1])>>)

AskSeverity ==
    /\ AllIdle
    /\ \E c \in Callers, value \in SeverityValues :
          Enter(c, "_parse_severity", <<value>>)

Severity == \E c \in Callers : ParseSeverity(c)

NextSeverity == AskSeverity \/ Severity \/ Done

SpecSeverity == Init /\ [][NextSeverity]_vars

\* hints a label or an annotation may carry; the empty text is no hint
SignalHints ==
    {<<"s", "a", "t", "u", "r", "a", "t", "i", "o", "n">>,
     <<"S", "a", "t", "u", "r", "a", "t", "e", "d">>,
     <<"c", "p", "u">>,
     <<" ", "C", "P", "U", " ">>,
     <<"c", "p", "u", "_", "u", "s", "a", "g", "e">>,
     <<"p", "o", "o", "l">>,
     <<"c", "a", "p", "a", "c", "i", "t", "y">>,
     <<"c", "a", "p", "a", "c", "i", "t", "y", " ", "p", "l", "a", "n", "n", "i", "n", "g">>,
     <<"l", "a", "t", "e", "n", "c", "y">>,
     <<"p", "9", "9">>,
     <<"s", "l", "o">>,
     <<"t", "r", "a", "n", "s", "l", "a", "t", "e">>,
     <<"e", "r", "r", "o", "r">>,
     <<"5", "x", "x">>,
     <<"d", "i", "s", "k">>}
    \cup {NoText}

\* alert names and titles; the empty text is a missing name
AlertNames ==
    {<<"H", "i", "g", "h", "C", "P", "U">>,
     <<"S", "e", "r", "v", "i", "c", "e", "S", "a", "t", "u", "r", "a", "t", "i", "o", "n", "H", "i", "g", "h">>,
     <<"p", "o", "o", "l", " ", "e", "x", "h", "a", "u", "s", "t", "e", "d">>,
     <<"u", "t", "i", "l", "i", "z", "a", "t", "i", "o", "n">>,
     <<"p", "l", "a", "t", "f", "o", "r", "m">>,
     <<"s", "l", "o", " ", "b", "u", "r", "n">>,
     <<"s", "l", "o", "w", " ", "q", "u", "e", "r", "i", "e", "s">>,
     <<"p", "9", "5", " ", "h", "i", "g", "h">>,
     <<"d", "u", "r", "a", "t", "i", "o", "n">>,
     <<"e", "r", "r", "o", "r", " ", "r", "a", "t", "e">>,
     <<"t", "e", "r", "r", "a", "f", "o", "r", "m">>,
     <<"f", "a", "u", "l", "t">>,
     <<"d", "i", "s", "k", " ", "f", "u", "l", "l">>}
    \cup {NoText}

HintKeys == {<<"labels", "signal">>, <<"labels", "signal_type">>,
             <<"annotations", "signal">>, <<"annotations", "signal_type">>}

\* the arguments of _infer_signal_type: a name and one hint under one key
SignalArguments ==
    {[name |-> name,
      labels |-> IF key[1] = "labels" /\ hint # NoText THEN key[2] :> hint ELSE <<>>,
      annotations |-> IF key[1] = "annotations" /\ hint # NoText
                      THEN key[2] :> hint ELSE <<>>] :
        name \in AlertNames, hint \in SignalHints, key \in HintKeys}

InferSignalType(c) ==
    LET args == calls[c].event[1]
    IN Leave(c, "_infer_signal_type", "returned",
             <<_infer_signal_type(args.name, args.labels, args.annotations)>>)

AskSignalType ==
    /\ AllIdle
    /\ \E c \in Callers, args \in SignalArguments :
          Enter(c, "_infer_signal_type", <<args>>)

Infer == \E c \in Callers : InferSignalType(c)

NextSignalType == AskSignalType \/ Infer \/ Done

SpecSignalType == Init /\ [][NextSignalType]_vars

\* tags as Datadog sends them: key:value, with blanks and capitals, with an
\* empty value, and a tag that holds no colon
Tags ==
    {<<"s", "e", "r", "v", "i", "c", "e", ":", "a", "p", "i">>,
     <<"S", "e", "r", "v", "i", "c", "e", ":", " ", "d", "b">>,
     <<"s", "e", "r", "v", "i", "c", "e", ":">>,
     <<"e", "n", "v", ":", "s", "t", "a", "g", "i", "n", "g">>,
     <<"e", "n", "v", "i", "r", "o", "n", "m", "e", "n", "t", ":", "d", "e", "v">>,
     <<"e", "n", "v", ":">>,
     <<"t", "e", "a", "m">>}

TagLists == UNION {[1..n -> Tags] : n \in 0..MaxTags}

\* labels that name the service or the environment under one key or two
LabelMaps ==
    {[key \in keys |->
         CASE key = "service" -> <<"w", "e", "b">>
           [] key = "app" -> <<"s", "h", "o", "p">>
           [] key = "env" -> <<"q", "a">>
           [] OTHER -> <<"c", "a", "n", "a", "r", "y">>] :
        keys \in SUBSET {"service", "app", "env", "environment"}}

ExtractServiceEnv(c) ==
    LET args == calls[c].event[1]
    IN Leave(c, "_extract_service_env", "returned",
             <<_extract_service_env(args.labels, args.tags)>>)

AskServiceEnv ==
    /\ AllIdle
    /\ \E c \in Callers, labels \in LabelMaps, tags \in TagLists :
          Enter(c, "_extract_service_env", <<[labels |-> labels, tags |-> tags]>>)

Extract == \E c \in Callers : ExtractServiceEnv(c)

NextServiceEnv == AskServiceEnv \/ Extract \/ Done

SpecServiceEnv == Init /\ [][NextServiceEnv]_vars

(* ------------- signal snapshots under streams of readings -------------- *)
\* the alert rule that fires the k-th alert of a stream: the rules differ, so
\* no two alerts of a stream share a fingerprint
RuleName(k) == "R" \o ToString(k)

\* ingest_event on an event, while the store holds fewer than limit alerts
Deliver(event, limit) ==
    /\ TotalAlerts(incidents) < limit
    /\ Install(ingest_event(Current, event, now).store)
    /\ UNCHANGED <<now, calls, downstreamVars>>

\* readings around the two warning ratios of a threshold of 200
StateReadings == {None, 179, 180, 189, 190, 199, 200}
StateThresholds == {None, 200}

\* the events the k-th rule may fire: every signal type and severity, with
\* and without a reading and a threshold
StateEvents(k) ==
    {Event("api", "prod", ty, RuleName(k), sev, obs, thr) :
        ty \in SignalTypes, sev \in Severities,
        obs \in StateReadings, thr \in StateThresholds}

Measure ==
    \E event \in StateEvents(TotalAlerts(incidents) + 1) :
        Deliver(event, MaxStateReadings)

NextSnapshot == Measure

SpecSnapshot == Init /\ [][NextSnapshot]_vars

\* streams of one signal type that rise, fall and stay, with events that
\* carry no reading among them
TrendReadings == {None, 1, 2, 3}

TrendEvents(k) ==
    {Event("api", "prod", "latency", RuleName(k), "warning", obs,
           IF obs = None THEN None ELSE 100) : obs \in TrendReadings}

Sample ==
    \E event \in TrendEvents(TotalAlerts(incidents) + 1) :
        Deliver(event, MaxTrendReadings)

NextTrend == Sample

SpecTrend == Init /\ [][NextTrend]_vars

\* streams longer than max_signal_history: two readings tell the order of the
\* history, and one event of the stream may carry no reading
HistoryReadings == {10, 20}

Unmeasured(incident) ==
    {i \in 1..Len(incident.alerts) : incident.alerts[i].observed = None}

HistoryEvents(k) ==
    {Event("api", "prod", "errors", RuleName(k), "warning", obs, 100) :
        obs \in HistoryReadings}
    \cup IF \A iid \in DOMAIN incidents : Unmeasured(incidents[iid]) = {}
         THEN {Event("api", "prod", "errors", RuleName(k), "warning", None, None)}
         ELSE {}

Stream ==
    \E event \in HistoryEvents(TotalAlerts(incidents) + 1) :
        Deliver(event, MaxHistoryReadings)

NextHistory == Stream

SpecHistory == Init /\ [][NextHistory]_vars

(* --------- api/routes/report.py, chat.py, stream.py, ingest.py --------- *)
LlmModes == {"auto", "off"}
Formats == {"markdown"}
ClientIps == {"10.0.0.1"}

\* prompts of the chat route; they carry no tags and no control characters,
\* so sanitize_input leaves them stripped of surrounding blanks
Prompts == {NoText, <<" ">>, <<"h", "i">>}

sanitize_input(text) == IF text = NoText THEN NoText ELSE strip(text)

\* f"{llm.value}:{effective_model}" with no model override in the request
cache_key_model(llm) == llm \o ":default"

\* the state of the rate limiter and the report cache
Downstream(limits, cache) == [rate_limits |-> limits, report_cache |-> cache]

CurrentDownstream == Downstream(rate_limits, report_cache)

\* what a route answers: the HTTP status, where the body came from and the
\* body
Response(status, kind, body) == [status |-> status, kind |-> kind, body |-> body]

\* POST /incidents/{incident_id}/report with an LLM provider configured, at
\* clock reading t; generated tells whether client.generate returned or
\* raised. The text the provider writes is a function of the report object in
\* its prompt, and stands as that report object.
report_incident_llm(d, st, incident_id, client_ip, format, llm, generated, t) ==
    LET r == report_incident(st, incident_id, t)
        key == <<incident_id, cache_key_model(llm), format>>
        hit == ReportCache_get(d.report_cache, key, t)
        limit == check_rate_limit(d.rate_limits, client_ip, t)
    IN IF r.ret.op = "not_found"
       THEN [down |-> d, store |-> r.store,
             response |-> Response(404, "error", <<>>)]
       ELSE IF llm = "off"
       THEN [down |-> d, store |-> r.store,
             response |-> Response(200, "deterministic", r.report)]
       ELSE IF hit.content # NoContent
       THEN [down |-> Downstream(d.rate_limits, hit.table),
             store |-> r.store,
             response |-> Response(200, "cached", hit.content)]
       ELSE IF ~limit.allowed
       THEN [down |-> Downstream(limit.table, hit.table),
             store |-> r.store,
             response |-> Response(200, "deterministic", r.report)]
       ELSE IF generated
       THEN [down |-> Downstream(limit.table,
                         ReportCache_set(hit.table, key, r.report, t)),
             store |-> r.store,
             response |-> Response(200, "llm", r.report)]
       ELSE [down |-> Downstream(limit.table, hit.table),
             store |-> r.store,
             response |-> Response(200, "deterministic", r.report)]

\* POST /chat at clock reading t
chat(d, prompt, client_ip, llm, generated, t) ==
    LET limit == check_rate_limit(d.rate_limits, client_ip, t)
    IN IF prompt = NoText \/ strip(prompt) = NoText
          \/ sanitize_input(prompt) = NoText
       THEN [down |-> d, response |-> Response(400, "error", <<>>)]
       ELSE IF llm = "off"
       THEN [down |-> d, response |-> Response(503, "error", <<>>)]
       ELSE IF ~limit.allowed
       THEN [down |-> Downstream(limit.table, d.report_cache),
             response |-> Response(429, "error", <<>>)]
       ELSE [down |-> Downstream(limit.table, d.report_cache),
             response |-> IF generated THEN Response(200, "llm", <<>>)
                          ELSE Response(502, "error", <<>>)]

InstallDownstream(d) ==
    /\ rate_limits' = d.rate_limits
    /\ report_cache' = d.report_cache

ReportIncident(incident_id, client_ip, format, llm, generated) ==
    LET r == report_incident_llm(CurrentDownstream, Current, incident_id,
                                 client_ip, format, llm, generated, now)
    IN /\ Install(r.store)
       /\ InstallDownstream(r.down)
       /\ UNCHANGED <<now, calls, subscribers>>

Chat(prompt, client_ip, llm, generated) ==
    LET r == chat(CurrentDownstream, prompt, client_ip, llm, generated, now)
    IN /\ InstallDownstream(r.down)
       /\ UNCHANGED <<now, storeVars, nextId, calls, subscribers>>

\* the queues have room for k more messages
Room(k) == \A s \in DOMAIN subscribers : Len(subscribers[s]) + k <= MaxQueued

\* POST /ingest with a payload of one alert: the event is ingested and the
\* two notifications are published
PostAlert(event) ==
    LET r == ingest_event(Current, event, now)
    IN /\ r.ret.dup \/ TotalAlerts(incidents) < MaxChanges
       /\ Room(2)
       /\ Install(r.store)
       /\ subscribers' = publish(publish(subscribers, "alert_ingested"),
                                 "incident_updated")
       /\ UNCHANGED <<now, calls, rate_limits, report_cache>>

\* GET /stream: EventBus.subscribe up to its first queue read
Subscribe(s) ==
    /\ s \notin DOMAIN subscribers
    /\ subscribers' = [q \in DOMAIN subscribers \cup {s} |->
                          IF q = s THEN <<>> ELSE subscribers[q]]
    /\ UNCHANGED <<now, storeVars, nextId, calls, rate_limits, report_cache>>

\* msg = await q.get(); yield msg
Consume(s) ==
    /\ s \in DOMAIN subscribers
    /\ subscribers[s] # <<>>
    /\ subscribers' = [subscribers EXCEPT ![s] = Tail(@)]
    /\ UNCHANGED <<now, storeVars, nextId, calls, rate_limits, report_cache>>

\* the client goes away: finally: self.subscribers.discard(q)
Disconnect(s) ==
    /\ s \in DOMAIN subscribers
    /\ subscribers' = [q \in DOMAIN subscribers \ {s} |-> subscribers[q]]
    /\ UNCHANGED <<now, storeVars, nextId, calls, rate_limits, report_cache>>

\* the garbage collector closes the connection a failed INSERT left open
Collect ==
    /\ rate_limits.locked
    /\ rate_limits' = [rate_limits EXCEPT !.locked = FALSE]
    /\ UNCHANGED <<now, storeVars, nextId, calls, report_cache, subscribers>>

\* clock readings of the downstream routes: 3 is outside the dedupe window of
\* 0 and inside the rate limit window and the cache's time to live, 61 is past
\* both
DownstreamTimes == {0, 3, 61}

Elapse ==
    /\ \E t \in DownstreamTimes : t > now /\ now' = t
    /\ UNCHANGED <<storeVars, nextId, calls, downstreamVars>>

DownstreamEvents == {Event("api", "prod", "errors", "E", "warning", 96, 100)}

Streams == {"s1"}

Alert == \E event \in DownstreamEvents : PostAlert(event)

Operate ==
    /\ Room(1)
    /\ \E incident_id \in 1..nextId, body \in OperatorRequests :
           UpdateResolution(incident_id, body)

Summarise ==
    \E incident_id \in 1..nextId, client_ip \in ClientIps, format \in Formats,
       llm \in LlmModes, generated \in BOOLEAN :
        ReportIncident(incident_id, client_ip, format, llm, generated)

Converse ==
    \E prompt \in Prompts, client_ip \in ClientIps, llm \in LlmModes,
       generated \in BOOLEAN :
        Chat(prompt, client_ip, llm, generated)

Listen == \E s \in Streams : Subscribe(s) \/ Consume(s) \/ Disconnect(s)

NextDownstream ==
    Alert \/ Operate \/ Summarise \/ Converse \/ Listen \/ Collect \/ Elapse

SpecDownstream == Init /\ [][NextDownstream]_vars

(* ============================== properties ============================= *)
Forced == {"resolved", "auto_closed", "false_alert", "accepted"}

IsPrefix(s, t) == Len(s) <= Len(t) /\ SubSeq(t, 1, Len(s)) = s

\* the open incidents of a key inside the look-back window, read off the
\* incident map
OpenInWindow(service, env) ==
    {iid \in DOMAIN incidents :
        /\ incidents[iid].service = service
        /\ incidents[iid].env = env
        /\ incidents[iid].status # "resolved"
        /\ incidents[iid].updated_at >= now - incident_window_minutes}

\* the incidents find_open may choose from for the event
OpenFor(event) == OpenInWindow(event.service, event.env)

\* the pair (incident, fingerprint of the event) was seen inside the dedupe
\* window, read off the dedupe cache
SeenInWindow(iid, event) ==
    /\ <<iid, event.fingerprint>> \in DOMAIN dedupe_cache
    /\ now - dedupe_cache[<<iid, event.fingerprint>>] <= dedupe_window_minutes

\* C1: in every reachable store, calling ingest_event(e) and then, at a clock
\* reading inside the dedupe window of the first call, ingest_event(e) again
\* leaves the incidents (alerts, signals, impact, status) as the first call
\* left them, also when the first call changed the status.
C1_SecondIngestChangesNothing ==
    \A event \in AlertEvents, t2 \in Times :
        (t2 >= now /\ t2 - now <= dedupe_window_minutes)
        => LET once == ingest_event(Current, event, now).store
               twice == ingest_event(once, event, t2).store
           IN twice.incidents = once.incidents

\* C2: when ingest_event resolves an incident whose pair (incident id, event
\* fingerprint) is in the dedupe cache with a timestamp inside the dedupe
\* window, it returns that incident, suppresses the event, and leaves the
\* incidents, the index, the dedupe cache and the id counter unchanged.
C2_DuplicateLeavesStoreUnchanged ==
    \A event \in AlertEvents :
        LET r == ingest_event(Current, event, now)
        IN SeenInWindow(r.ret.id, event)
           => /\ r.ret.dup
              /\ r.ret.id \in DOMAIN incidents
              /\ r.store = Current

\* an event arrives at the last minute of the dedupe window of its pair, on an
\* incident that holds it, and is suppressed
C2_Witness ==
    \E event \in AlertEvents :
        LET r == ingest_event(Current, event, now)
        IN /\ r.ret.dup
           /\ \E i \in 1..Len(incidents[r.ret.id].alerts) :
                 incidents[r.ret.id].alerts[i].fingerprint = event.fingerprint
           /\ now - dedupe_cache[<<r.ret.id, event.fingerprint>>] = dedupe_window_minutes

\* C3: when an event occurs three times, each time inside the dedupe window
\* of the occurrence before it, the third occurrence is suppressed on the
\* incident the second one went to, whether the second one was processed or
\* suppressed.
C3_SlidingWindowSuppresses ==
    \A event \in AlertEvents, d1 \in 0..dedupe_window_minutes,
       d2 \in 0..dedupe_window_minutes :
        LET first == ingest_event(Current, event, now)
            second == ingest_event(first.store, event, now + d1)
            third == ingest_event(second.store, event, now + d1 + d2)
        IN third.ret.id = second.ret.id => third.ret.dup

\* C5: with an open incident of the event's (service, env) inside the look-back
\* window, ingest_event returns the most recently updated of them, creates no
\* incident and, unless the event is a duplicate, appends the event to it;
\* otherwise it creates and stores exactly one incident under an unused id.
C5_IncidentResolution ==
    \A event \in AlertEvents :
        LET r == ingest_event(Current, event, now)
            id == r.ret.id
            after == r.store.incidents
        IN IF OpenFor(event) # {}
           THEN /\ id \in OpenFor(event)
                /\ \A j \in OpenFor(event) :
                      incidents[j].updated_at <= incidents[id].updated_at
                /\ ~r.ret.created
                /\ DOMAIN after = DOMAIN incidents
                /\ ~r.ret.dup => after[id].alerts = Append(incidents[id].alerts, event)
           ELSE /\ r.ret.created
                /\ id \notin DOMAIN incidents
                /\ DOMAIN after = DOMAIN incidents \cup {id}
                /\ after[id].service = event.service
                /\ after[id].env = event.env
                /\ after[id].alerts = <<event>>

\* an open incident sits exactly at the edge of the look-back window while an
\* older incident of the same key is no longer eligible
C5_Witness ==
    \E event \in AlertEvents :
        /\ \E i \in OpenFor(event) :
              incidents[i].updated_at = now - incident_window_minutes
        /\ \E j \in DOMAIN incidents \ OpenFor(event) :
              /\ incidents[j].service = event.service
              /\ incidents[j].env = event.env

\* C6: ingest_event leaves every resolved incident as it is (alerts, signals,
\* impact, status, updated_at) and returns another incident.
C6_ResolvedIsTerminal ==
    \A event \in AlertEvents :
        LET r == ingest_event(Current, event, now)
        IN \A iid \in DOMAIN incidents :
              incidents[iid].status = "resolved"
              => /\ r.store.incidents[iid] = incidents[iid]
                 /\ r.ret.id # iid

\* an incident the status deriver resolved is followed by an incident of the
\* same key that was opened while the resolved one was inside the look-back
\* window
C6_Witness ==
    \E i \in DOMAIN incidents, j \in DOMAIN incidents :
        /\ i # j
        /\ incidents[i].status = "resolved"
        /\ incidents[i].resolution_status = "none"
        /\ incidents[j].service = incidents[i].service
        /\ incidents[j].env = incidents[i].env
        /\ incidents[j].created_at >= incidents[i].updated_at
        /\ incidents[j].created_at - incidents[i].updated_at <= incident_window_minutes

\* C8 as stated: update_resolution on an existing incident leaves the status
\* resolved, whatever resolution status the request carries.
C8_AlwaysForcesResolved ==
    \A incident_id \in DOMAIN incidents, status \in ResolutionStatus, note \in Notes :
        update_resolution(Current, incident_id, Request(status, note))
            .store.incidents[incident_id].status = "resolved"

\* C8 amended: a request carrying resolved, auto_closed, false_alert or
\* accepted leaves the status resolved, whatever the impact; a request
\* carrying none leaves the status as it was; an unknown id is reported not
\* found and leaves the store unchanged.
C8_ForcesResolvedUnlessNone ==
    \A incident_id \in 1..nextId, status \in ResolutionStatus, note \in Notes :
        LET r == update_resolution(Current, incident_id, Request(status, note))
        IN IF incident_id \in DOMAIN incidents
           THEN /\ r.ret.op = "resolution"
                /\ r.store.incidents[incident_id].status =
                      IF status \in Forced THEN "resolved"
                      ELSE incidents[incident_id].status
           ELSE /\ r.ret.op = "not_found"
                /\ r.store = Current

\* the operator resolved an incident whose impact is major or minor
C8_Witness ==
    \E iid \in DOMAIN incidents :
        /\ incidents[iid].resolution_status = "resolved"
        /\ incidents[iid].impact.impact \in {"major", "minor"}
        /\ incidents[iid].status = "resolved"

\* C9: updated_at of a stored incident never decreases, and every step that
\* changes a stored incident leaves its updated_at at the clock reading.
C9_UpdatedAtBumpedOnEveryMutation ==
    [][\A iid \in DOMAIN incidents :
          /\ incidents'[iid].updated_at >= incidents[iid].updated_at
          /\ incidents'[iid] # incidents[iid] => incidents'[iid].updated_at = now]_vars

\* C10: no step removes an incident or changes the alerts it already holds
\* (the old list is a prefix of the new one); an ingest_event that is not
\* suppressed appends its event at the end of the returned incident's list
\* and leaves every other list alone; a report leaves the store as it is.
C10_AlertsAppendOnly ==
    /\ [][\A iid \in DOMAIN incidents :
             /\ iid \in DOMAIN incidents'
             /\ IsPrefix(incidents[iid].alerts, incidents'[iid].alerts)]_vars
    /\ [](\A event \in AlertEvents :
             LET r == ingest_event(Current, event, now)
                 after == r.store.incidents
             IN ~r.ret.dup
                => /\ after[r.ret.id].alerts =
                         Append(IF r.ret.id \in DOMAIN incidents
                                THEN incidents[r.ret.id].alerts ELSE <<>>, event)
                   /\ \A iid \in DOMAIN after \ {r.ret.id} :
                         after[iid].alerts = incidents[iid].alerts)
    /\ [](\A incident_id \in DOMAIN incidents :
             LET r == report_incident(Current, incident_id, now)
             IN r.store = Current)

\* an incident holds at least two alerts, its first two of different signal
\* types, while another incident exists
C10_Witness ==
    \E iid \in DOMAIN incidents :
        /\ Len(incidents[iid].alerts) >= 2
        /\ incidents[iid].alerts[1].signal_type # incidents[iid].alerts[2].signal_type
        /\ DOMAIN incidents # {iid}

\* what every sequential run keeps: a key never has two open incidents inside
\* the look-back window
OneOpenPerKey ==
    \A service \in Services, env \in Envs :
        Cardinality(OpenInWindow(service, env)) <= 1

\* C4: once the interleaved ingest_event calls have returned, the store is one
\* a sequential order of the calls produces: every alert of a key went to the
\* one open incident of the key, at most one incident was created for it.
C4_InterleavedIngestIsSerial ==
    (\A c \in Callers : calls[c].pc = "idle") => OneOpenPerKey

\* C7: an incident the operator resolved stays resolved, whatever ingest_event
\* call was in flight when the operator resolved it.
C7_OperatorResolutionSticks ==
    [][\A iid \in DOMAIN incidents :
          (incidents[iid].status = "resolved" /\ incidents[iid].resolution_status \in Forced)
          => incidents'[iid].status = "resolved"]_vars

\* C11: every alert of a stored incident carries the incident's service and
\* env, and no step changes the service or the env of a stored incident.
C11_AlertsShareIncidentKey ==
    /\ [](\A iid \in DOMAIN incidents :
             \A i \in 1..Len(incidents[iid].alerts) :
                /\ incidents[iid].alerts[i].service = incidents[iid].service
                /\ incidents[iid].alerts[i].env = incidents[iid].env)
    /\ [][\A iid \in DOMAIN incidents :
             /\ incidents'[iid].service = incidents[iid].service
             /\ incidents'[iid].env = incidents[iid].env]_vars

\* incidents of two services are open at the same clock reading, one of them
\* holding two alerts
C11_Witness ==
    \E i \in DOMAIN incidents, j \in DOMAIN incidents :
        /\ incidents[i].service # incidents[j].service
        /\ incidents[i].status # "resolved" /\ incidents[j].status # "resolved"
        /\ incidents[i].updated_at = now /\ incidents[j].updated_at = now
        /\ Len(incidents[i].alerts) >= 2

\* the signal types of the alerts an incident holds
ObservedTypes(incident) ==
    {incident.alerts[i].signal_type : i \in 1..Len(incident.alerts)}

\* C12: the keys of an incident's signals map are exactly the signal types of
\* the alerts it holds, and the snapshot under a key carries that key as its
\* signal type.
C12_OneSnapshotPerObservedType ==
    \A iid \in DOMAIN incidents :
        /\ DOMAIN incidents[iid].signals = ObservedTypes(incidents[iid])
        /\ \A ty \in DOMAIN incidents[iid].signals :
              incidents[iid].signals[ty].signal_type = ty

\* an incident holds more alerts than signal types: a snapshot was replaced,
\* another one added
C12_Witness ==
    \E iid \in DOMAIN incidents :
        /\ Cardinality(DOMAIN incidents[iid].signals) = 2
        /\ Len(incidents[iid].alerts) = 3

\* the state and the trend the rules read for a signal type: an absent
\* snapshot reads as ok and not rising
StateRead(signals, ty) == IF ty \in DOMAIN signals THEN signals[ty].state ELSE "ok"
Rising(signals, ty) == IF ty \in DOMAIN signals THEN signals[ty].trend = "up" ELSE FALSE

\* the incident under classification
TheSubject == incidents[1]

\* C13: with saturation critical, latency and errors ok or absent and neither
\* of their trends up, assess_incident returns impact none, classification
\* capacity_warning, whatever the saturation trend and the 'other' snapshot.
C13_SaturationIsolation ==
    LET signals == TheSubject.signals
        impact == assess_incident(signals)
    IN (/\ "saturation" \in DOMAIN signals
        /\ signals["saturation"].state = "critical"
        /\ \A ty \in {"errors", "latency"} :
              ty \in DOMAIN signals
              => signals[ty].state = "ok" /\ signals[ty].trend # "up")
       => /\ impact.impact = "none"
          /\ impact.classification = "capacity_warning"

\* classified as capacity warning: saturation critical and rising, a critical
\* and rising 'other' snapshot, errors ok and falling, no latency snapshot
C13_Witness ==
    /\ TheSubject.impact = Assessment("none", 65, "capacity_warning")
    /\ DOMAIN TheSubject.signals = {"saturation", "errors", "other"}
    /\ TheSubject.signals["saturation"].trend = "up"
    /\ TheSubject.signals["errors"].trend = "down"

\* C14: with errors critical and latency critical, assess_incident returns
\* impact major, classification outage, confidence 0.9, whatever the
\* saturation state and the trends.
C14_OutagePrecedence ==
    LET signals == TheSubject.signals
    IN (/\ {"errors", "latency"} \subseteq DOMAIN signals
        /\ signals["errors"].state = "critical"
        /\ signals["latency"].state = "critical")
       => assess_incident(signals) = Assessment("major", 90, "outage")

\* classified as outage while saturation is critical and errors are rising
C14_Witness ==
    /\ TheSubject.impact = Assessment("major", 90, "outage")
    /\ {"errors", "latency", "saturation"} \subseteq DOMAIN TheSubject.signals
    /\ TheSubject.signals["saturation"].state = "critical"
    /\ TheSubject.signals["errors"].trend = "up"

\* the seven rules in their order: the condition of each and what it returns
RuleTable(e, l, s, e_up, l_up) ==
    << [when |-> e = "critical" /\ l = "critical",
        then |-> Assessment("major", 90, "outage")],
       [when |-> e = "critical",
        then |-> Assessment("major", 80, "error_spike")],
       [when |-> l = "critical",
        then |-> Assessment("major", 80, "latency_degradation")],
       [when |-> s = "critical" /\ (e # "ok" \/ l # "ok" \/ e_up \/ l_up),
        then |-> Assessment("minor", 70, "degradation_possible")],
       [when |-> s = "critical",
        then |-> Assessment("none", 65, "capacity_warning")],
       [when |-> e = "warning" \/ l = "warning",
        then |-> Assessment("minor", 60, "investigate")],
       [when |-> TRUE,
        then |-> Assessment("none", 55, "healthy")] >>

\* the result of the first rule whose condition holds
FirstMatch(rules) ==
    rules[CHOOSE i \in 1..Len(rules) :
             rules[i].when /\ \A j \in 1..(i - 1) : ~rules[j].when].then

\* C15: assess_incident returns what the first matching rule of the seven-rule
\* table returns, an absent signal reading as ok and not rising.
C15_AssessIsRuleTable ==
    LET signals == TheSubject.signals
    IN assess_incident(signals) =
          FirstMatch(RuleTable(StateRead(signals, "errors"),
                               StateRead(signals, "latency"),
                               StateRead(signals, "saturation"),
                               Rising(signals, "errors"),
                               Rising(signals, "latency")))

\* rule 4 decided by a trend alone: saturation critical, errors and latency
\* ok, latency rising
C15_Witness ==
    /\ TheSubject.impact = Assessment("minor", 70, "degradation_possible")
    /\ {"errors", "latency", "saturation"} \subseteq DOMAIN TheSubject.signals
    /\ TheSubject.signals["errors"].state = "ok"
    /\ TheSubject.signals["latency"].state = "ok"
    /\ TheSubject.signals["latency"].trend = "up"
    /\ TheSubject.signals["errors"].trend # "up"

\* the status table, first matching row
StatusTable(level, class, previous, alert_count) ==
    CASE level = "none" /\ class = "healthy" /\ previous \in {"major", "minor"}
            -> "resolved"
      [] level \in {"major", "minor"} -> "investigating"
      [] level = "none" /\ class = "capacity_warning" -> "watch"
      [] level = "none" /\ class # "capacity_warning" /\ alert_count > 0
            /\ ~(class = "healthy" /\ previous \in {"major", "minor"}) -> "watch"
      [] level = "none" /\ class # "capacity_warning" /\ alert_count = 0
            /\ ~(class = "healthy" /\ previous \in {"major", "minor"}) -> "resolved"

\* C16: for every previous impact, derive_status on the incident's assessment
\* and alerts returns what the status table gives, one of the statuses.
C16_DeriveStatusIsTable ==
    \A previous_impact \in PreviousImpacts :
        /\ derive_status(TheSubject.impact, TheSubject.alerts, previous_impact) =
              StatusTable(TheSubject.impact.impact, TheSubject.impact.classification,
                          previous_impact, Len(TheSubject.alerts))
        /\ derive_status(TheSubject.impact, TheSubject.alerts, previous_impact)
              \in IncidentStatuses

\* an incident without alerts, impact none and not classified healthy, was
\* given the status resolved
C16_Witness ==
    /\ TheSubject.alerts = <<>>
    /\ TheSubject.impact.impact = "none"
    /\ TheSubject.impact.classification = "investigate"
    /\ TheSubject.status = "resolved"

\* events that report a signal back below its warning ratio, under alert
\* names of their own
Recoveries ==
    { Event("api", "prod", "saturation", "S2", "info", 10, 100),
      Event("api", "prod", "errors", "E3", "info", 10, 100),
      Event("db", "prod", "latency", "L2", "info", 10, 100) }

\* the incident as it was after the first k of its alerts: the classification
\* reads the events alone, never the clock
AfterAlerts(incident, k) ==
    LET RECURSIVE Fold(_)
        Fold(n) == IF n = 0
                   THEN NewIncident(incident.id, incident.service, incident.env, 0)
                   ELSE Correlate(Fold(n - 1), incident.alerts[n], 0)
    IN Fold(k)

\* C17: when an ingestion leaves an incident classified healthy and the
\* incident's impact was major or minor after some earlier ingestion, the
\* ingestion leaves the incident resolved.
C17_RecoveryResolves ==
    \A event \in AlertEvents \cup Recoveries :
        LET r == ingest_event(Current, event, now)
            incident == r.store.incidents[r.ret.id]
        IN (/\ ~r.ret.dup
            /\ incident.impact.classification = "healthy"
            /\ \E k \in 1..(Len(incident.alerts) - 1) :
                  AfterAlerts(incident, k).impact.impact \in {"major", "minor"})
           => incident.status = "resolved"

\* C18: a stored incident that carries no operator resolution is investigating
\* exactly when its impact is minor or major, is resolved only when it is
\* classified healthy, is in watch otherwise, and is never mitigating.
C18_StatusFollowsRules ==
    \A iid \in DOMAIN incidents :
        incidents[iid].resolution_status = "none"
        => LET incident == incidents[iid]
               impacting == incident.impact.impact \in {"minor", "major"}
           IN /\ incident.status = "investigating" <=> impacting
              /\ incident.status = "resolved"
                    => incident.impact.classification = "healthy"
              /\ ~impacting /\ incident.impact.classification # "healthy"
                    => incident.status = "watch"
              /\ incident.status \in {"watch", "investigating", "resolved"}

\* no incident carries an operator resolution: one was resolved by the status
\* deriver, another is a capacity warning in watch
C18_Witness ==
    /\ \A iid \in DOMAIN incidents : incidents[iid].resolution_status = "none"
    /\ \E i \in DOMAIN incidents, j \in DOMAIN incidents :
          /\ incidents[i].status = "resolved"
          /\ incidents[j].status = "watch"
          /\ incidents[j].impact.classification = "capacity_warning"


\* the events the requests of a scenario normalize to, provider named or not
scenario_events[name \in ScenarioNames] ==
    UNION {{alert_events[req][i] : i \in 1..Len(alert_events[req])} :
              req \in {r \in ScenarioRequests :
                         \E k \in 1..Len(get_scenario(name)) :
                             r.payload = get_scenario(name)[k].payload}}

\* the alerts the store holds
StoredAlerts ==
    UNION {{incidents[iid].alerts[i] : i \in 1..Len(incidents[iid].alerts)} :
              iid \in DOMAIN incidents}

\* no event was delivered again after its dedupe window and stored twice
StoredOnce == TotalAlerts(incidents) = Cardinality(StoredAlerts)

\* the events of a scenario, by signal type
OfType(name, ty) == {e \in scenario_events[name] : e.signal_type = ty}

BelowWarning(e) ==
    /\ e.observed # None /\ e.threshold # None
    /\ e.observed * 100 < e.threshold * generic_warn_ratio

AtThreshold(e) ==
    e.observed # None /\ e.threshold # None /\ e.observed >= e.threshold

\* C19: the saturation-only scenario is one saturation event at or over its
\* threshold and a latency and an errors event below the warning ratio, all of
\* one (service, env); once a store that started empty holds exactly these
\* three, arrived in any order within the look-back window, each posted with
\* its provider named or detected and stored once, it holds one incident, of
\* impact none, classified capacity_warning, in status watch.
C19_SaturationOnlyIsCapacityWarning ==
    /\ Cardinality(scenario_events["saturation_only"]) = 3
    /\ \A e \in scenario_events["saturation_only"] :
          /\ e.service = "checkout" /\ e.env = "prod"
          /\ e.signal_type \in {"saturation", "latency", "errors"}
          /\ IF e.signal_type = "saturation" THEN AtThreshold(e) ELSE BelowWarning(e)
    /\ \A ty \in {"saturation", "latency", "errors"} :
          Cardinality(OfType("saturation_only", ty)) = 1
    /\ StoredAlerts = scenario_events["saturation_only"] /\ StoredOnce
          => /\ Cardinality(DOMAIN incidents) = 1
             /\ \A iid \in DOMAIN incidents :
                   /\ Len(incidents[iid].alerts) = 3
                   /\ incidents[iid].impact.impact = "none"
                   /\ incidents[iid].impact.classification = "capacity_warning"
                   /\ incidents[iid].status = "watch"

\* the three events arrived one by one with the saturation event last, the
\* first at clock reading 0 and the last at 60
C19_Witness ==
    /\ StoredAlerts = scenario_events["saturation_only"] /\ StoredOnce
    /\ \E iid \in DOMAIN incidents :
          /\ incidents[iid].alerts[1].signal_type = "errors"
          /\ incidents[iid].alerts[3].signal_type = "saturation"
          /\ incidents[iid].created_at = 0
          /\ incidents[iid].updated_at = 60

\* C20: the full-outage scenario is an errors, a latency and a saturation
\* event of one (service, env), each at or over its threshold; in a store that
\* started empty and holds only events of this scenario, each once, in any order
\* within the look-back window, an incident that holds the errors or the
\* latency event has impact major, status investigating and a classification
\* among outage, error_spike and latency_degradation, and once all three are
\* held there is one incident.
C20_FullOutageIsMajor ==
    /\ Cardinality(scenario_events["full_outage"]) = 3
    /\ \A e \in scenario_events["full_outage"] :
          /\ e.service = "checkout" /\ e.env = "prod"
          /\ AtThreshold(e)
    /\ \A ty \in {"saturation", "latency", "errors"} :
          Cardinality(OfType("full_outage", ty)) = 1
    /\ StoredAlerts \subseteq scenario_events["full_outage"] /\ StoredOnce
          => /\ Cardinality(DOMAIN incidents) <= 1
             /\ \A iid \in DOMAIN incidents :
                   (\E i \in 1..Len(incidents[iid].alerts) :
                        incidents[iid].alerts[i].signal_type \in {"errors", "latency"})
                   => /\ incidents[iid].impact.impact = "major"
                      /\ incidents[iid].status = "investigating"
                      /\ incidents[iid].impact.classification
                            \in {"outage", "error_spike", "latency_degradation"}

\* all three events are held, the saturation event having arrived first and
\* the errors event last, at a later clock reading
C20_Witness ==
    /\ StoredAlerts = scenario_events["full_outage"] /\ StoredOnce
    /\ \E iid \in DOMAIN incidents :
          /\ incidents[iid].alerts[1].signal_type = "saturation"
          /\ incidents[iid].alerts[3].signal_type = "errors"
          /\ incidents[iid].created_at < incidents[iid].updated_at

\* C21: the history of every snapshot of every incident holds at most
\* max_signal_history values, and a snapshot whose history holds fewer than
\* three values has trend unknown.
C21_BoundedHistory ==
    \A iid \in DOMAIN incidents :
        \A ty \in DOMAIN incidents[iid].signals :
            LET snapshot == incidents[iid].signals[ty]
            IN /\ Len(snapshot.history) <= max_signal_history
               /\ Len(snapshot.history) < 3 => snapshot.trend = "unknown"

\* more readings than max_signal_history have arrived for one signal type
C21_Witness ==
    \E iid \in DOMAIN incidents :
        /\ Len(incidents[iid].alerts) > max_signal_history
        /\ Unmeasured(incidents[iid]) = {}
        /\ Len(incidents[iid].signals["errors"].history) = max_signal_history

\* the readings of the alerts of one signal type that an incident holds, in
\* arrival order; an alert without a reading contributes nothing
Measured(incident, ty) ==
    LET RECURSIVE Upto(_)
        Upto(n) ==
            IF n = 0 THEN <<>>
            ELSE IF /\ incident.alerts[n].signal_type = ty
                    /\ incident.alerts[n].observed # None
                 THEN Append(Upto(n - 1), incident.alerts[n].observed)
                 ELSE Upto(n - 1)
    IN Upto(Len(incident.alerts))

\* C22: the history of a snapshot is the last min(n, max_signal_history) of the
\* n readings that the stored alerts of its signal type carry, in arrival
\* order.
C22_HistoryIsSlidingWindow ==
    \A iid \in DOMAIN incidents :
        \A ty \in DOMAIN incidents[iid].signals :
            LET readings == Measured(incidents[iid], ty)
                history == incidents[iid].signals[ty].history
            IN /\ Len(history) =
                     IF Len(readings) < max_signal_history
                     THEN Len(readings) ELSE max_signal_history
               /\ \A i \in 1..Len(history) :
                     history[i] = readings[Len(readings) - Len(history) + i]

\* thirteen readings have arrived, the first of them differs from the second,
\* and the history starts with the second
C22_Witness ==
    \E iid \in DOMAIN incidents :
        LET readings == Measured(incidents[iid], "errors")
        IN /\ Len(readings) = max_signal_history + 1
           /\ readings[1] # readings[2]
           /\ incidents[iid].signals["errors"].history[1] = readings[2]

\* the last alert of a signal type that an incident holds
LastOfType(incident, ty) ==
    LET at == CHOOSE i \in 1..Len(incident.alerts) :
                  /\ incident.alerts[i].signal_type = ty
                  /\ \A j \in (i + 1)..Len(incident.alerts) :
                        incident.alerts[j].signal_type # ty
    IN incident.alerts[at]

\* the state the rules give an event that carries both numbers: the ratio is
\* 90 percent for saturation and 95 percent for every other type
StateByNumbers(event) ==
    IF event.observed >= event.threshold THEN "critical"
    ELSE IF event.signal_type = "saturation"
         THEN IF event.observed * 10 >= event.threshold * 9 THEN "warning" ELSE "ok"
         ELSE IF event.observed * 20 >= event.threshold * 19 THEN "warning" ELSE "ok"

\* the state the rules give an event that lacks a number
StateBySeverity(event) ==
    CASE event.severity = "critical" -> "critical"
      [] event.severity = "warning" -> "warning"
      [] OTHER -> "ok"

TrendOf(history) ==
    IF Len(history) < 3 THEN "unknown"
    ELSE LET n == Len(history)
             a == history[n - 2]
             b == history[n - 1]
             c == history[n]
         IN CASE a < b /\ b < c /\ (c - a) * 1000000 > 1 -> "up"
              [] a > b /\ b > c /\ (a - c) * 1000000 > 1 -> "down"
              [] OTHER -> "flat"

Touched(st, events, t) ==
    LET RECURSIVE Run(_)
        Run(n) ==
            IF n = 0 THEN [store |-> st, ids |-> <<>>, dups |-> {}]
            ELSE LET prev == Run(n - 1)
                     r == ingest_event(prev.store, events[n], t)
                 IN [store |-> r.store, ids |-> Append(prev.ids, r.ret.id),
                     dups |-> IF r.ret.dup THEN prev.dups \cup {n} ELSE prev.dups]
    IN Run(Len(events))

\* the place at which an incident is first touched
FirstTouch(ids, iid) == CHOOSE i \in 1..Len(ids) :
                            ids[i] = iid /\ \A j \in 1..(i - 1) : ids[j] # iid

\* the answer names every incident touched, each once, in the order of the
\* first touches
IsFirstTouchedOrder(answer, ids) ==
    /\ {answer[i] : i \in 1..Len(answer)} = {ids[i] : i \in 1..Len(ids)}
    /\ \A i \in 1..Len(answer), j \in 1..Len(answer) :
          i < j => /\ answer[i] # answer[j]
                   /\ FirstTouch(ids, answer[i]) < FirstTouch(ids, answer[j])

\* C25: on every store and for every batch, ingest leaves the store that
\* ingest_event leaves when it is given the events in order, and answers with
\* every incident touched, each once, in the order of the first touches; an
\* event suppressed as a duplicate touches its incident; POST /ingest answers
\* with the same identifiers.
C25_BatchAnswersFirstTouched ==
    \A events \in Batches :
        LET r == CorrelationEngine_ingest(Current, events, now)
            touched == Touched(Current, events, now)
        IN /\ r.store = touched.store
           /\ r.store = IngestEvents(Current, events, now)
           /\ IsFirstTouchedOrder(r.ret, touched.ids)
           /\ incident_ids_unique(Current, events, now) = r.ret

\* a batch of three touches one incident, then another, then the first one
\* again with an event that is suppressed as a duplicate
C25_Witness ==
    /\ incidents # <<>>
    /\ \E events \in Batches :
          LET touched == Touched(Current, events, now)
          IN /\ Len(events) = 3
             /\ touched.ids[1] # touched.ids[2]
             /\ touched.ids[3] = touched.ids[1]
             /\ 3 \in touched.dups
             /\ CorrelationEngine_ingest(Current, events, now).ret
                   = <<touched.ids[1], touched.ids[2]>>

\* C26: no call of normalize_payload ends by raising, whatever the provider
\* hint and the shape of the payload.
C26_NormalizeNeverRaises ==
    \A c \in Callers : calls[c].pc # "raised"

\* the keywords of the severity mapping
CriticalWords ==
    {<<"c", "r", "i", "t", "i", "c", "a", "l">>,
     <<"c", "r", "i", "t">>,
     <<"p", "a", "g", "e">>,
     <<"p", "1">>,
     <<"h", "i", "g", "h">>}
WarningWords ==
    {<<"w", "a", "r", "n", "i", "n", "g">>,
     <<"w", "a", "r", "n">>,
     <<"p", "2">>,
     <<"m", "e", "d", "i", "u", "m">>}

\* the value with its blanks at the ends removed and its capitals lowered
Keyword(value) == lower(strip(value))

\* a call of the function named that has returned: its argument and result
Returned(c, op) == calls[c].pc = "returned" /\ calls[c].local[2] = op

\* C27 as claimed: the keywords of critical give critical, those of warning
\* give warning, and every other value, a missing or empty one included,
\* gives info.
C27_EverythingElseIsInfo ==
    \A c \in Callers :
        Returned(c, "_parse_severity")
        => calls[c].local[1] =
              IF Keyword(calls[c].event[1]) \in CriticalWords THEN "critical"
              ELSE IF Keyword(calls[c].event[1]) \in WarningWords THEN "warning"
              ELSE "info"

\* C27: the keywords of critical give critical and those of warning give
\* warning, whatever their case and the blanks around them; a missing or
\* empty value gives warning; every other value gives info.
C27_KeywordsAndEmptyDefault ==
    \A c \in Callers :
        Returned(c, "_parse_severity")
        => LET value == calls[c].event[1]
               severity == calls[c].local[1]
           IN /\ severity = "critical" <=> Keyword(value) \in CriticalWords
              /\ severity = "warning"
                    <=> (Keyword(value) \in WarningWords \/ value = NoText)
              /\ severity \in {"critical", "warning", "info"}

\* the value was missing or empty and the call returned warning
C27_Witness ==
    \E c \in Callers :
        /\ Returned(c, "_parse_severity")
        /\ calls[c].event[1] = NoText
        /\ calls[c].local[1] = "warning"

\* the hint among the arguments of a call
HintOf(args) ==
    IF DOMAIN args.labels # {}
    THEN args.labels[CHOOSE key \in DOMAIN args.labels : TRUE]
    ELSE IF DOMAIN args.annotations # {}
    THEN args.annotations[CHOOSE key \in DOMAIN args.annotations : TRUE]
    ELSE NoText

\* the substring rules as claimed, on a hint and on a name alike
BySubstring(text) ==
    IF AnyIn({<<"s", "a", "t", "u", "r">>, <<"c", "p", "u">>, <<"p", "o", "o", "l">>, <<"c", "a", "p", "a", "c", "i", "t", "y">>}, text)
    THEN "saturation"
    ELSE IF AnyIn({<<"l", "a", "t">>, <<"p", "9", "9">>, <<"p", "9", "5">>, <<"s", "l", "o">>}, text)
    THEN "latency"
    ELSE IF AnyIn({<<"e", "r", "r">>, <<"5", "x", "x">>}, text)
    THEN "errors"
    ELSE "other"

\* C28 as claimed: the hint is classified by the substring rules; without a
\* hint, or with a hint that matches no rule, the name is classified by the
\* same rules; when nothing matches the type is other.
C28_SameSubstringRules ==
    \A c \in Callers :
        Returned(c, "_infer_signal_type")
        => LET args == calls[c].event[1]
               hint == Keyword(HintOf(args))
           IN calls[c].local[1] =
                 IF BySubstring(hint) # "other" THEN BySubstring(hint)
                 ELSE BySubstring(lower(args.name))

\* the rules of the hint: satur anywhere, or cpu, pool, capacity as the whole
\* hint; lat, p99, p95, slo anywhere; err, 5xx anywhere
ByHint(hint) ==
    IF \/ contains(<<"s", "a", "t", "u", "r">>, hint)
       \/ hint \in {<<"c", "p", "u">>, <<"p", "o", "o", "l">>, <<"c", "a", "p", "a", "c", "i", "t", "y">>}
    THEN "saturation"
    ELSE IF AnyIn({<<"l", "a", "t">>, <<"p", "9", "9">>, <<"p", "9", "5">>, <<"s", "l", "o">>}, hint)
    THEN "latency"
    ELSE IF AnyIn({<<"e", "r", "r">>, <<"5", "x", "x">>}, hint)
    THEN "errors"
    ELSE "other"

\* the rules of the name, each keyword anywhere in it
ByName(name) ==
    IF AnyIn({<<"s", "a", "t", "u", "r">>, <<"c", "p", "u">>, <<"p", "o", "o", "l">>, <<"c", "a", "p", "a", "c", "i", "t", "y">>, <<"u", "t", "i", "l", "i", "z", "a", "t", "i", "o", "n">>, <<"e", "x", "h", "a", "u", "s", "t">>}, name)
    THEN "saturation"
    ELSE IF AnyIn({<<"l", "a", "t", "e", "n", "c", "y">>, <<"p", "9", "9">>, <<"p", "9", "5">>, <<"d", "u", "r", "a", "t", "i", "o", "n">>, <<"s", "l", "o", "w">>}, name)
    THEN "latency"
    ELSE IF AnyIn({<<"e", "r", "r", "o", "r">>, <<"5", "x", "x">>, <<"e", "x", "c", "e", "p", "t", "i", "o", "n">>, <<"f", "a", "u", "l", "t">>}, name)
    THEN "errors"
    ELSE "other"

\* C28: the hint, without the blanks around it and in lower case, is
\* classified first by the rules of the hint; without a hint, or with a hint
\* that matches none of them, the name in lower case is classified by the
\* rules of the name, in the same order of types; when nothing matches the
\* type is other.
C28_HintThenName ==
    \A c \in Callers :
        Returned(c, "_infer_signal_type")
        => LET args == calls[c].event[1]
               hint == Keyword(HintOf(args))
           IN calls[c].local[1] =
                 IF ByHint(hint) # "other" THEN ByHint(hint)
                 ELSE ByName(lower(args.name))

\* the hint holds cpu without being cpu, so the name decided, against what
\* the substring rules give the hint
C28_Witness ==
    \E c \in Callers :
        /\ Returned(c, "_infer_signal_type")
        /\ HintOf(calls[c].event[1]) = <<"c", "p", "u", "_", "u", "s", "a", "g", "e">>
        /\ calls[c].event[1].name = <<"e", "r", "r", "o", "r", " ", "r", "a", "t", "e">>
        /\ calls[c].local[1] = "errors"

\* the values the tags give for one of the keys, in the order of the tags
TagValues(tags, keys) ==
    LET RECURSIVE From(_)
        From(i) ==
            IF i > Len(tags) THEN <<>>
            ELSE IF contains(<<":">>, tags[i]) /\ SplitTag(tags[i]).k \in keys
                 THEN <<SplitTag(tags[i]).v>> \o From(i + 1)
                 ELSE From(i + 1)
    IN From(1)

\* the first candidate that is not empty, the default when there is none
FirstNonEmpty(candidates, default) ==
    IF \E i \in 1..Len(candidates) : candidates[i] # NoText
    THEN candidates[CHOOSE i \in 1..Len(candidates) :
                        /\ candidates[i] # NoText
                        /\ \A j \in 1..(i - 1) : candidates[j] = NoText]
    ELSE default

\* C29: the service is the first non-empty value among the labels service,
\* app, job, component and then the service tags, in this order, and unknown
\* when there is none; the environment is the first non-empty value among the
\* labels env, environment and then the env and environment tags, and prod
\* when there is none.
C29_FirstNonEmptyWins ==
    \A c \in Callers :
        Returned(c, "_extract_service_env")
        => LET args == calls[c].event[1]
               services == <<GetText(args.labels, "service"), GetText(args.labels, "app"),
                             GetText(args.labels, "job"), GetText(args.labels, "component")>>
                           \o TagValues(args.tags, {<<"s", "e", "r", "v", "i", "c", "e">>})
               envs == <<GetText(args.labels, "env"), GetText(args.labels, "environment")>>
                       \o TagValues(args.tags, {<<"e", "n", "v">>, <<"e", "n", "v", "i", "r", "o", "n", "m", "e", "n", "t">>})
           IN calls[c].local[1] = <<FirstNonEmpty(services, <<"u", "n", "k", "n", "o", "w", "n">>),
                                    FirstNonEmpty(envs, <<"p", "r", "o", "d">>)>>

\* the events of the stream with the fingerprint left empty
Unfingerprinted == {[event EXCEPT !.fingerprint = ""] : event \in AlertEvents}

\* C30: ingest_event on an event whose fingerprint is empty reports a
\* precondition violation and leaves incidents, index and dedupe cache as
\* they were.
C30_FailsFastWithoutFingerprint ==
    \A event \in Unfingerprinted :
        LET r == ingest_event(Current, event, now)
        IN /\ r.ret.op # "ingest"
           /\ r.store.incidents = incidents
           /\ r.store.service_env_index = service_env_index
           /\ r.store.dedupe_cache = dedupe_cache

\* a step of a collaborator downstream of the core: a report, a chat, a
\* subscription, a delivery to a subscriber, a disconnection, or the rate
\* limiter's database being released
DownstreamStep == Summarise \/ Converse \/ Listen \/ Collect

\* C31: report generation, chat, event subscription and delivery, report-cache
\* and rate-limiter operations leave the incidents, the service/env index, the
\* dedupe cache and the next identifier unchanged, so every ingest_event gives
\* after such a step the result it would have given before it.
C31_DownstreamLeavesCoreAlone ==
    [][\/ /\ UNCHANGED <<storeVars, nextId>>
          /\ \A event \in DownstreamEvents :
                 ingest_event(Store(incidents', service_env_index',
                                    dedupe_cache', nextId'), event, now')
                     = ingest_event(Current, event, now')
       \/ ~DownstreamStep]_vars

\* an incident is stored, a report of it is cached, a request is recorded by
\* the rate limiter and a subscriber has a notification waiting
C31_Witness ==
    /\ incidents # <<>>
    /\ report_cache # <<>>
    /\ rate_limits.rows # {}
    /\ \E s \in DOMAIN subscribers : subscribers[s] # <<>>


\* the number of calls allowed when check_rate_limit is called for the IP
\* address at each of the clock readings in turn, starting from the table
Grants(table, ip_address, times) ==
    LET RECURSIVE Count(_, _)
        Count(tb, n) ==
            IF n > Len(times) THEN 0
            ELSE LET r == check_rate_limit(tb, ip_address, times[n])
                 IN (IF r.allowed THEN 1 ELSE 0) + Count(r.table, n + 1)
    IN Count(table, 1)

\* C32: from every state of the rate limiter, four calls of check_rate_limit
\* for one IP address at clock readings less than RATE_LIMIT_WINDOW_SECONDS
\* apart, the same reading included, are allowed at most RATE_LIMIT_REQUESTS
\* times.
C32_AtMostThreePerWindow ==
    \A ip_address \in ClientIps, t1, t2, t3, t4 \in DownstreamTimes :
        /\ now <= t1 /\ t1 <= t2 /\ t2 <= t3 /\ t3 <= t4
        /\ (t4 - t1) * SecondsPerMinute < RATE_LIMIT_WINDOW_SECONDS
        => Grants(rate_limits, ip_address, <<t1, t2, t3, t4>>) <= RATE_LIMIT_REQUESTS


\* the requests of the IP address the rate limiter counts at clock reading t
Counted(table, ip_address, t) ==
    CountSince(table, ip_address,
               isoformat(t - RATE_LIMIT_WINDOW_SECONDS \div SecondsPerMinute))

\* C33: a report request answered with a cached report or with the
\* deterministic rendering, the fallback after a failed LLM call included,
\* leaves the number of requests counted for its IP address as it was.
C33_FallbackIsNotCounted ==
    \A incident_id \in DOMAIN incidents, client_ip \in ClientIps,
       format \in Formats, llm \in LlmModes, generated \in BOOLEAN :
        LET r == report_incident_llm(CurrentDownstream, Current, incident_id,
                                     client_ip, format, llm, generated, now)
        IN r.response.kind \in {"cached", "deterministic"}
           => Counted(r.down.rate_limits, client_ip, now)
                  = Counted(rate_limits, client_ip, now)


\* the cached report the report route would serve for the key at this clock
\* reading, NoContent when it would serve none
Served(key) == ReportCache_get(report_cache, key, now).content

\* C34: a cached report that the report route would serve narrates the
\* incident as it is stored now: every non-duplicate ingest_event and every
\* resolution update has removed the reports cached before it.
C34_CachedUntilIncidentChanges ==
    \A key \in DOMAIN report_cache :
        Served(key) # NoContent
        => [Served(key)[1] EXCEPT !.generatedAt = now]
               = generate_report_object(incidents[key[1]], now)


\* the incident is not resolved and was last updated before the look-back
\* window of the current clock reading
AgedOut(iid) ==
    /\ incidents[iid].status # "resolved"
    /\ incidents[iid].updated_at < now - incident_window_minutes

RepeatedNames == {"E", "E2", "S", "L"}
Observations == {None, 100}
Thresholds == {None, 100}

\* the alert with the same provider, service, env, signal type and alert
\* name as one the incident holds, under every severity and reading
Repeats(alert) ==
    LET names == {name \in RepeatedNames :
                     \E severity \in Severities :
                         Event(alert.service, alert.env, alert.signal_type, name,
                               severity, alert.observed, alert.threshold) = alert}
    IN {Event(alert.service, alert.env, alert.signal_type, name,
              severity, observed, threshold) :
           name \in names, severity \in Severities,
           observed \in Observations, threshold \in Thresholds}

\* the repeats of every input event
RepeatsOf == [alert \in AlertEvents |-> Repeats(alert)]

\* the fingerprint does not read the severity or the reading
FingerprintIgnoresReading ==
    \A alert \in AlertEvents :
        \A v \in RepeatsOf[alert] : v.fingerprint = alert.fingerprint

\* C36: the fingerprint of an event is the same under every severity,
\* observed value and threshold, and an event that repeats an alert of the
\* incident find_open gives it, inside the dedupe window of the pair, is
\* suppressed whatever severity and reading it carries: the incident keeps
\* its alerts, snapshots (state, observed, history, trend), impact and status.
C36_ChangedReadingIsSuppressed ==
    /\ FingerprintIgnoresReading
    /\ \A iid \in DOMAIN incidents :
           \A i \in 1..Len(incidents[iid].alerts) :
               (/\ SeenInWindow(iid, incidents[iid].alerts[i])
                /\ iid \in OpenFor(incidents[iid].alerts[i]))
               => \A v \in RepeatsOf[incidents[iid].alerts[i]] :
                      LET r == ingest_event(Current, v, now)
                      IN /\ r.ret.dup
                         /\ r.ret.id = iid
                         /\ r.store.incidents[iid] = incidents[iid]

\* an incident holds a warning errors alert of 96 against 100 and is degraded;
\* the alert comes back inside the dedupe window as critical with 100 against
\* 100, which would have made the snapshot critical and changed the impact
C36_Witness ==
    \E iid \in DOMAIN incidents :
        \E i \in 1..Len(incidents[iid].alerts) :
            \E v \in RepeatsOf[incidents[iid].alerts[i]] :
                /\ iid \in OpenFor(v) /\ SeenInWindow(iid, v)
                /\ v.observed # incidents[iid].alerts[i].observed
                /\ v.severity # incidents[iid].alerts[i].severity
                /\ ingest_event(Current, v, now).ret.dup
                /\ LET updated == Correlate(incidents[iid], v, now)
                   IN /\ updated.signals[v.signal_type].state
                            # incidents[iid].signals[v.signal_type].state
                      /\ updated.impact # incidents[iid].impact


\* the signals map with the trend of its saturation snapshot replaced
WithSaturationTrend(signals, trend) ==
    IF "saturation" \in DOMAIN signals
    THEN [signals EXCEPT !["saturation"] =
             SnapshotOf("saturation", signals["saturation"].state, trend)]
    ELSE signals

\* the signals map with its 'other' snapshot removed or replaced
WithOther(signals, other) ==
    [ty \in (DOMAIN signals \ {"other"}) \cup (IF other = <<>> THEN {} ELSE {"other"})
        |-> IF ty = "other" THEN other[1] ELSE signals[ty]]

\* the incidents that agree with the given one on the states of errors,
\* latency and saturation and on the trends of errors and latency: every
\* saturation trend, with and without an 'other' snapshot, every previous
\* impact level, with and without alerts
Twins(incident) ==
    {Subject(WithOther(WithSaturationTrend(incident.signals, trend), other),
             Assessment(level, 50, "unknown"), alerts) :
        trend \in Trends,
        other \in {<<>>, <<SnapshotOf("other", "critical", "up")>>,
                   <<SnapshotOf("other", "ok", "down")>>},
        level \in ImpactLevels,
        alerts \in AlertLists}

\* alerts of the signal type 'other': correlating one leaves the snapshots of
\* errors, latency and saturation as they are
OtherEvents ==
    {Event("api", "prod", "other", "O", severity, None, None) :
        severity \in {"info", "critical"}}

\* C37: two incidents that agree on the states of the errors, latency and
\* saturation snapshots and on the trends of errors and latency are assessed
\* alike, and ingest_event's classification step gives them the same impact,
\* classification and confidence, whatever their previous impact, their
\* alerts, their saturation trend and their 'other' snapshot.
C37_AssessmentReadsFiveInputs ==
    \A twin \in Twins(TheSubject) :
        /\ assess_incident(twin.signals) = assess_incident(TheSubject.signals)
        /\ \A event \in OtherEvents :
              Correlate(twin, event, now).impact
                 = Correlate(TheSubject, event, now).impact

\* an incident assessed as a capacity warning, with a rising critical
\* saturation and a critical 'other' snapshot, has a twin whose previous impact
\* was major, whose saturation falls and which has no 'other' snapshot
C37_Witness ==
    /\ TheSubject.impact = Assessment("none", 65, "capacity_warning")
    /\ "other" \in DOMAIN TheSubject.signals
    /\ TheSubject.signals["saturation"].trend = "up"
    /\ TheSubject.alerts # <<>>
    /\ \E twin \in Twins(TheSubject) :
          /\ twin.impact.impact = "major"
          /\ "other" \notin DOMAIN twin.signals
          /\ twin.signals["saturation"].trend = "down"
          /\ twin.alerts = <<>>
          /\ \A event \in OtherEvents :
                Correlate(twin, event, now).impact = TheSubject.impact


\* C38: in every reachable state, for every incident and every signal type
\* it has a snapshot of, the snapshot's state, observed value and threshold
\* are those a snapshot built from nothing but the incident's last alert of
\* that type has: earlier alerts of the type and alerts of other types leave
\* no trace in them.
C38_StateHasNoMemory ==
    \A iid \in DOMAIN incidents :
        \A ty \in DOMAIN incidents[iid].signals :
            LET last == LastOfType(incidents[iid], ty)
                alone == _update_signal_snapshot(<<>>, last, now)
                stored == incidents[iid].signals[ty]
            IN /\ stored.state = alone.state
               /\ stored.state = _compute_state(last)
               /\ stored.observed = last.observed
               /\ stored.threshold = last.threshold

\* an incident took a critical saturation alert, a critical errors alert and
\* then an errors alert that reads ok: its errors snapshot is ok with the
\* reading of the last alert, its saturation snapshot is still critical
C38_Witness ==
    \E iid \in DOMAIN incidents :
        LET alerts == incidents[iid].alerts
        IN /\ Len(alerts) = 3
           /\ alerts[1].signal_type = "saturation"
           /\ alerts[2].signal_type = "errors"
           /\ _compute_state(alerts[2]) = "critical"
           /\ alerts[3].signal_type = "errors"
           /\ _compute_state(alerts[3]) = "ok"
           /\ incidents[iid].signals["errors"].state = "ok"
           /\ incidents[iid].signals["errors"].observed = alerts[3].observed
           /\ incidents[iid].signals["saturation"].state = "critical"


\* the incident's impact was none after each of its ingestions
NoneThroughout(incident) ==
    \A k \in 1..Len(incident.alerts) :
        AfterAlerts(incident, k).impact.impact = "none"

\* C39: an ingestion that leaves an incident's impact none, as every
\* ingestion before it did, leaves the incident in watch; a stored incident
\* whose impact was none throughout is in watch unless the operator resolved
\* it, and while it is in watch inside the look-back window every event of
\* its key is correlated into it.
C39_NoImpactStaysInWatch ==
    /\ \A event \in AlertEvents \cup Recoveries :
           LET r == ingest_event(Current, event, now)
               incident == r.store.incidents[r.ret.id]
           IN \/ r.ret.dup
              \/ incident.status = "watch"
              \/ ~NoneThroughout(incident)
    /\ \A iid \in DOMAIN incidents :
           /\ \/ incidents[iid].status = "watch"
              \/ /\ incidents[iid].status = "resolved"
                 /\ incidents[iid].resolution_status # "none"
              \/ ~NoneThroughout(incidents[iid])
           /\ (incidents[iid].status = "watch" /\ ~AgedOut(iid))
              => \/ \A event \in AlertEvents \cup Recoveries :
                       (event.service = incidents[iid].service
                        /\ event.env = incidents[iid].env)
                       => ingest_event(Current, event, now).ret.id = iid
                 \/ ~NoneThroughout(incidents[iid])

\* an incident holds a capacity warning and nothing else, and is in watch; the
\* saturation reading that makes it healthy leaves it in watch
C39_Witness ==
    \E iid \in DOMAIN incidents, event \in Recoveries :
        LET r == ingest_event(Current, event, now)
        IN /\ Len(incidents[iid].alerts) = 1
           /\ incidents[iid].impact.classification = "capacity_warning"
           /\ incidents[iid].status = "watch"
           /\ r.ret.id = iid
           /\ ~r.ret.dup
           /\ r.store.incidents[iid].impact.classification = "healthy"
           /\ r.store.incidents[iid].status = "watch"


\* how often the id occurs in the list
Occurrences(ids, iid) == Cardinality({i \in 1..Len(ids) : ids[i] = iid})

\* C40: every stored incident is stored under its own id and listed exactly
\* once in service_env_index, under the key (service, env) of the incident
\* and under no other key; every id the index lists is a stored incident; so
\* the candidates find_open reads for a key are the stored incidents of that
\* key, each once.
C40_IndexMatchesIncidents ==
    /\ \A iid \in DOMAIN incidents :
           LET key == <<incidents[iid].service, incidents[iid].env>>
           IN /\ incidents[iid].id = iid
              /\ key \in DOMAIN service_env_index
              /\ Occurrences(service_env_index[key], iid) = 1
              /\ \A other \in DOMAIN service_env_index \ {key} :
                    Occurrences(service_env_index[other], iid) = 0
    /\ \A key \in DOMAIN service_env_index :
           /\ \A i \in 1..Len(service_env_index[key]) :
                 service_env_index[key][i] \in DOMAIN incidents
           /\ Len(service_env_index[key])
                 = Cardinality({iid \in DOMAIN incidents :
                       <<incidents[iid].service, incidents[iid].env>> = key})

\* two keys are indexed, one of them lists two incidents, and an incident was
\* stored again by the resolution route after ingestion had stored it
C40_Witness ==
    /\ Cardinality(DOMAIN service_env_index) = 2
    /\ \E key \in DOMAIN service_env_index : Len(service_env_index[key]) = 2
    /\ \E iid \in DOMAIN incidents :
          /\ incidents[iid].resolution_status = "resolved"
          /\ incidents[iid].alerts # <<>>

====
